---- MODULE Spec2Model ----
(***************************************************************************)
(* Model of the travel web application's relational store and of the       *)
(* request handlers in resources/*.py that read and write it.              *)
(*                                                                         *)
(* The state is the content of the five tables created by                  *)
(* init_db.create_tables, the AUTOINCREMENT counters SQLite keeps in       *)
(* sqlite_sequence, and the outcome of the last request (`last`).          *)
(* Every handler is one action: it runs on its own connection obtained     *)
(* from db.get_db (foreign keys enforced) and either commits or leaves     *)
(* the tables as they were.  ORDER BY clauses are not modelled: a list     *)
(* body is the set of the selected rows.                                   *)
(***************************************************************************)
EXTENDS Integers, FiniteSets, Sequences, TLC

VARIABLES Users, Countries, Locations, Trips, User_countries,
          sqlite_sequence, last, pending

tables == <<Users, Countries, Locations, Trips, User_countries>>
vars == <<Users, Countries, Locations, Trips, User_countries,
          sqlite_sequence, last, pending>>

----------------------------------------------------------------------------
(* Bounds of the exploration: the largest id each AUTOINCREMENT counter    *)
(* may hand out.                                                           *)
MaxUsers == 2
MaxCountries == 2
MaxTrips == 2
MaxLocations == 1

----------------------------------------------------------------------------
(* Python values *)

\* None for an integer field (a JSON payload without the key)
None == 0 - 1
\* None for a text field
NoneStr == "<None>"

\* str.strip() on the raw strings the requests carry
Strip(s) ==
    CASE s = " alice " -> "alice"
      [] s = "   "     -> ""
      [] s = " Rome "  -> "Rome"
      [] s = " p.png " -> "p.png"
      [] OTHER         -> s

\* str.upper() on the raw strings the requests carry
Upper(s) ==
    CASE s = "fra" -> "FRA"
      [] s = "usa" -> "USA"
      [] OTHER     -> s

\* str.lower() / SQL LOWER() on the country names and usernames in use
Lower(s) ==
    CASE s = "France"        -> "france"
      [] s = "FRANCE"        -> "france"
      [] s = "United States" -> "united states"
      [] s = "Default_User"  -> "default_user"
      [] OTHER               -> s

\* Readings of the store's clock (one-second resolution) while requests are
\* served, later than the reading at which the default user was inserted:
\* created_at is DEFAULT CURRENT_TIMESTAMP
CURRENT_TIMESTAMP == {"2024-01-02 00:00:00"}

\* pycountry.countries.get(alpha_3=code) is not None
IsAlpha3(code) == code \in {"USA", "FRA", "DEU"}

----------------------------------------------------------------------------
(* The store: constraints declared by create_tables *)

UserIds == {u.user_id : u \in Users}
CountryIds == {c.country_id : c \in Countries}
LocationIds == {l.location_id : l \in Locations}
TripIds == {t.trip_id : t \in Trips}

\* the ids of the rows a table with a surrogate key holds
TableIds(table) ==
    CASE table = "Users" -> UserIds
      [] table = "Countries" -> CountryIds
      [] table = "Locations" -> LocationIds
      [] table = "Trips" -> TripIds

\* Mutant of NextId: INTEGER PRIMARY KEY without AUTOINCREMENT, the next
\* rowid is one more than the largest in the table
NextId_MaxRowid(table) ==
    IF TableIds(table) = {} THEN 1
    ELSE (CHOOSE m \in TableIds(table) :
             \A k \in TableIds(table) : k <= m) + 1

\* AUTOINCREMENT: the next rowid is one more than the largest ever used
NextId(table) == sqlite_sequence[table] + 1

\* Mutant of UsersConstraint: the username column declared COLLATE NOCASE
UsersConstraint_NoCase(row, others) ==
    IF \E u \in others : Lower(u.username) = Lower(row.username)
      THEN "UNIQUE constraint failed: Users.username"
    ELSE IF \E u \in others : u.email = row.email
      THEN "UNIQUE constraint failed: Users.email"
    ELSE ""

\* Mutant of UsersConstraint: the email column declared without UNIQUE
UsersConstraint_UsernameOnly(row, others) ==
    IF \E u \in others : u.username = row.username
      THEN "UNIQUE constraint failed: Users.username"
    ELSE ""

\* Users: username TEXT NOT NULL UNIQUE, email TEXT NOT NULL UNIQUE.
\* The error an INSERT/UPDATE of `row` raises, "" when it raises none;
\* `others` is the table without the row being replaced.
UsersConstraint(row, others) ==
    IF \E u \in others : u.username = row.username
      THEN "UNIQUE constraint failed: Users.username"
    ELSE IF \E u \in others : u.email = row.email
      THEN "UNIQUE constraint failed: Users.email"
    ELSE ""

\* Countries: country_code3 TEXT NOT NULL UNIQUE, country TEXT NOT NULL UNIQUE
CountriesConstraint(row, others) ==
    IF \E c \in others : c.country_code3 = row.country_code3
      THEN "UNIQUE constraint failed: Countries.country_code3"
    ELSE IF \E c \in others : c.country = row.country
      THEN "UNIQUE constraint failed: Countries.country"
    ELSE ""

\* Columns of Locations as created, and the columns the handlers' INSERT
\* and UPDATE statements name: a statement naming a column the table does
\* not have fails to prepare (sqlite3.OperationalError).
LocationsColumns ==
    {"location_id", "loc_name", "user_id", "country_id", "image_url"}
LocationsWriteColumns ==
    {"loc_name", "user_id", "country_id", "image_url", "latitude", "longitude"}

\* Locations: UNIQUE(user_id, loc_name), FOREIGN KEY user_id, country_id
LocationsConstraint(row, others) ==
    IF ~(LocationsWriteColumns \subseteq LocationsColumns)
      THEN "OperationalError: no column named latitude"
    ELSE IF \E l \in others : l.user_id = row.user_id /\ l.loc_name = row.loc_name
      THEN "UNIQUE constraint failed: Locations.user_id, Locations.loc_name"
    ELSE IF row.user_id \notin UserIds \/ row.country_id \notin CountryIds
      THEN "FOREIGN KEY constraint failed"
    ELSE ""

\* Mutant of TripsConstraint: the table declared without UNIQUE(user_id, trip_name)
TripsConstraint_NoUnique(row, others) ==
    IF row.startdate = NoneStr
      THEN "NOT NULL constraint failed: Trips.startdate"
    ELSE IF row.enddate = NoneStr
      THEN "NOT NULL constraint failed: Trips.enddate"
    ELSE IF row.user_id \notin UserIds \/ row.country_id \notin CountryIds
      THEN "FOREIGN KEY constraint failed"
    ELSE ""

\* Trips: startdate/enddate TEXT NOT NULL, UNIQUE(user_id, trip_name),
\* FOREIGN KEY user_id, country_id.  SQLite reports NOT NULL before UNIQUE
\* and checks foreign keys when the statement ends.
TripsConstraint(row, others) ==
    IF row.startdate = NoneStr
      THEN "NOT NULL constraint failed: Trips.startdate"
    ELSE IF row.enddate = NoneStr
      THEN "NOT NULL constraint failed: Trips.enddate"
    ELSE IF \E t \in others : t.user_id = row.user_id /\ t.trip_name = row.trip_name
      THEN "UNIQUE constraint failed: Trips.user_id, Trips.trip_name"
    ELSE IF row.user_id \notin UserIds \/ row.country_id \notin CountryIds
      THEN "FOREIGN KEY constraint failed"
    ELSE ""

\* A row of User_countries is <<user_id, country_id, n>>: n numbers the rows
\* that hold the same pair, so that the table is the multiset SQL makes it.
\* SELECT ... FROM User_countries WHERE user_id = ? AND country_id = ?
LinkRows(user_id, country_id) ==
    {k \in User_countries : k[1] = user_id /\ k[2] = country_id}

\* Mutant of User_countriesConstraint: the table declared without its
\* PRIMARY KEY (user_id, country_id)
User_countriesConstraint_NoPrimaryKey(link) ==
    IF link[1] \notin UserIds \/ link[2] \notin CountryIds
      THEN "FOREIGN KEY constraint failed"
    ELSE ""

\* User_countries: PRIMARY KEY (user_id, country_id), FOREIGN KEY both
User_countriesConstraint(link) ==
    IF LinkRows(link[1], link[2]) # {}
      THEN "UNIQUE constraint failed: User_countries.user_id, User_countries.country_id"
    ELSE IF link[1] \notin UserIds \/ link[2] \notin CountryIds
      THEN "FOREIGN KEY constraint failed"
    ELSE ""

\* Mutant of user_exists: a pre-check that finds a row for every id
user_exists_Unchecked(user_id) == TRUE

\* SELECT 1 FROM Users WHERE user_id = ? / FROM Countries WHERE country_id = ?
\* (the existence pre-checks of the create and update handlers)
user_exists(user_id) == user_id \in UserIds
country_exists(country_id) == country_id \in CountryIds

\* Mutant of UserReferenced: a connection without PRAGMA foreign_keys = ON
UserReferenced_Unenforced(id) == FALSE

\* The FOREIGN KEY clauses declare no ON DELETE action, so with
\* PRAGMA foreign_keys = ON a DELETE of a referenced parent row fails.
UserReferenced(id) ==
    \/ \E l \in Locations : l.user_id = id
    \/ \E t \in Trips : t.user_id = id
    \/ \E k \in User_countries : k[1] = id

CountryReferenced(id) ==
    \/ \E l \in Locations : l.country_id = id
    \/ \E t \in Trips : t.country_id = id
    \/ \E k \in User_countries : k[2] = id

LocationReferenced(id) == \E t \in Trips : t.location_id = id

----------------------------------------------------------------------------
(* Outcome of a request *)

\* The number of get_db() calls a handler makes on the path that ends in
\* an outcome of the given kind: none before the required-field check, one
\* for the `with get_db() as conn:` block that holds the statements, and a
\* second one where the handler re-reads the row in a block of its own
\* (the creates) or checks the target in a block of its own (Update Country)
get_db_calls(op, kind) ==
    CASE op \in {"start", "create_tables", "ensure_default_data"} -> 0
      [] op = "CountryResource.get" -> 0
      [] op = "CountryResource.put" ->
            IF kind \in {"not_found", "validation"} THEN 1 ELSE 2
      [] op = "UserList.post" ->
            \* its only failure after the INSERT is the re-read's
            IF kind = "validation" THEN 0 ELSE IF kind = "conflict" THEN 1 ELSE 2
      [] op \in {"CountryList.post", "LocationList.post", "TripList.post"} ->
            IF kind = "validation" THEN 0 ELSE IF kind = "ok" THEN 2 ELSE 1
      [] op \in {"UserResource.put", "LocationResource.put",
                 "TripResource.put", "UserCountryLinkList.post"} ->
            IF kind = "validation" THEN 0 ELSE 1
      [] OTHER -> 1

\* The number of those connections the handler closes before it returns or
\* aborts.  `with conn:` on a sqlite3 connection commits or rolls back and
\* leaves the connection open, and no handler calls conn.close(): an
\* acquired connection stays open until the interpreter finalises the
\* object, which the handler does not control.
close_calls(op, kind) == 0

Outcome(op, id, data, status, kind, body) ==
    [op |-> op, id |-> id, data |-> data,
     status |-> status, kind |-> kind, body |-> body,
     acquired |-> get_db_calls(op, kind),
     closed |-> close_calls(op, kind)]

\* `pending` is a request of another thread that has run the SELECTs of its
\* pre-checks and not yet its INSERT or UPDATE: the statements of a handler
\* are separate transactions on its connection, so requests served by
\* other threads can commit between them.
NoPending == [op |-> "none"]

\* a request served in one piece, whatever another thread has pending
Respond(op, id, data, status, kind, body) ==
    /\ last' = Outcome(op, id, data, status, kind, body)
    /\ pending' = pending

\* the pending request runs its remaining statements and answers
Complete(op, id, data, status, kind, body) ==
    /\ last' = Outcome(op, id, data, status, kind, body)
    /\ pending' = NoPending

\* a request stops after pre-checks that all passed
Suspend(op, id, data) ==
    /\ pending = NoPending
    /\ pending' = [op |-> op, id |-> id, data |-> data]
    /\ UNCHANGED <<tables, sqlite_sequence, last>>

Bump(table, id) == sqlite_sequence' = [sqlite_sequence EXCEPT ![table] = id]

NoData == [none |-> TRUE]

----------------------------------------------------------------------------
(* init_db.py *)

TableNames == {"Users", "Countries", "Locations", "Trips", "User_countries"}

\* The database file in which exactly the tables of `schema` exist, each
\* with the rows it holds now
Database(schema) ==
    [schema |-> schema,
     rows |-> [t \in TableNames |->
                 IF t \notin schema THEN {}
                 ELSE CASE t = "Users" -> Users
                        [] t = "Countries" -> Countries
                        [] t = "Locations" -> Locations
                        [] t = "Trips" -> Trips
                        [] t = "User_countries" -> User_countries],
     error |-> ""]

\* Mutant of create_tables_on: every table dropped and created anew, as
\* initialize_database does with the whole file
create_tables_on_Recreate(db) ==
    [schema |-> TableNames, rows |-> [t \in TableNames |-> {}], error |-> ""]

\* create_tables(): five CREATE TABLE IF NOT EXISTS statements, then commit.
\* A table that exists is skipped with its rows; one that is missing is
\* created empty.
create_tables_on(db) ==
    [schema |-> db.schema \cup TableNames,
     rows |-> [t \in TableNames |->
                 IF t \in db.schema THEN db.rows[t] ELSE {}],
     error |-> ""]

\* create_tables() called on the database the application is running on
create_tables ==
    LET after == create_tables_on(Database(TableNames))
    IN  /\ Users' = after.rows["Users"]
        /\ Countries' = after.rows["Countries"]
        /\ Locations' = after.rows["Locations"]
        /\ Trips' = after.rows["Trips"]
        /\ User_countries' = after.rows["User_countries"]
        /\ Respond("create_tables", 0, NoData, 0,
                   IF after.error = "" THEN "ok" ELSE "storage", {})
        /\ UNCHANGED sqlite_sequence

----------------------------------------------------------------------------
(* app.py *)

\* ensure_default_data(), run at every start of the application on the
\* database the entity operations left behind.  Its connection comes from
\* sqlite3.connect, not from get_db: foreign keys are not enforced on it.
\* The three statements are one transaction: an exception rolls it back.
ensure_default_data ==
    \E now \in CURRENT_TIMESTAMP :
    LET user_row == [user_id |-> 1, username |-> "default_user",
                     email |-> "default@example.com",
                     profile_url |-> NoneStr, created_at |-> now]
        country_row == [country_id |-> 1, country_code3 |-> "USA",
                        country |-> "United States"]
        \* INSERT INTO Users: raises on a UNIQUE failure
        user_error == IF 1 \in UserIds THEN ""
                      ELSE UsersConstraint(user_row, Users)
        \* INSERT OR IGNORE INTO Countries: skipped on a UNIQUE failure
        ignored == CountriesConstraint(country_row, Countries) # ""
    IN  IF user_error # ""
          THEN /\ Respond("ensure_default_data", 0, NoData, 0, "unhandled", {})
               /\ UNCHANGED <<tables, sqlite_sequence>>
        ELSE /\ Users' = IF 1 \in UserIds THEN Users
                                            ELSE Users \cup {user_row}
             /\ Countries' = IF 1 \in CountryIds \/ ignored
                                THEN Countries
                                ELSE Countries \cup {country_row}
             /\ User_countries' = IF LinkRows(1, 1) # {}
                                     THEN User_countries
                                     ELSE User_countries \cup {<<1, 1, 1>>}
             /\ Respond("ensure_default_data", 0, NoData, 0, "ok", {})
             /\ UNCHANGED <<Locations, Trips, sqlite_sequence>>

----------------------------------------------------------------------------
(* resources/users.py *)

\* GET /users
UserList_get ==
    /\ Respond("UserList.get", 0, NoData, 200, "ok", Users)
    /\ UNCHANGED <<tables, sqlite_sequence>>

\* Mutant of UserList_post: the INSERT goes into a table without UNIQUE
\* columns, so it never raises
UserList_post_Unconstrained(data) ==
    \E now \in CURRENT_TIMESTAMP :
    LET username == Strip(data.username)
        email == Strip(data.email)
        profile_url == IF data.profile_url # NoneStr
                         THEN Strip(data.profile_url) ELSE NoneStr
        user_id == NextId("Users")
        row == [user_id |-> user_id, username |-> username,
                email |-> email, profile_url |-> profile_url,
                created_at |-> now]
    IN  IF username = "" \/ email = ""
          THEN /\ Respond("UserList.post", 0, data, 400, "validation", {})
               /\ UNCHANGED <<tables, sqlite_sequence>>
        ELSE /\ user_id <= MaxUsers
             /\ Users' = Users \cup {row}
             /\ Bump("Users", user_id)
             /\ Respond("UserList.post", user_id, data, 201, "ok",
                        {u \in Users' : u.user_id = user_id})
             /\ UNCHANGED <<Countries, Locations, Trips, User_countries>>

\* POST /users
UserList_post(data) ==
    \E now \in CURRENT_TIMESTAMP :
    LET username == Strip(data.username)
        email == Strip(data.email)
        profile_url == IF data.profile_url # NoneStr
                         THEN Strip(data.profile_url) ELSE NoneStr
        user_id == NextId("Users")
        row == [user_id |-> user_id, username |-> username,
                email |-> email, profile_url |-> profile_url,
                created_at |-> now]
    IN  IF username = "" \/ email = ""
          THEN /\ Respond("UserList.post", 0, data, 400, "validation", {})
               /\ UNCHANGED <<tables, sqlite_sequence>>
        ELSE IF UsersConstraint(row, Users) # ""
          THEN \* except sqlite3.IntegrityError
               /\ Respond("UserList.post", 0, data, 409, "conflict", {})
               /\ UNCHANGED <<tables, sqlite_sequence>>
        ELSE /\ user_id <= MaxUsers
             /\ Users' = Users \cup {row}
             /\ Bump("Users", user_id)
             /\ Respond("UserList.post", user_id, data, 201, "ok",
                        {u \in Users' : u.user_id = user_id})
             /\ UNCHANGED <<Countries, Locations, Trips, User_countries>>

\* POST /users up to the commit of an INSERT that raised nothing: the row
\* is in the table, the request has not answered yet
UserList_post_insert(data) ==
    \E now \in CURRENT_TIMESTAMP :
    LET username == Strip(data.username)
        email == Strip(data.email)
        profile_url == IF data.profile_url # NoneStr
                         THEN Strip(data.profile_url) ELSE NoneStr
        user_id == NextId("Users")
        row == [user_id |-> user_id, username |-> username,
                email |-> email, profile_url |-> profile_url,
                created_at |-> now]
    IN  /\ pending = NoPending
        /\ ~(username = "" \/ email = "")
        /\ UsersConstraint(row, Users) = ""
        /\ user_id <= MaxUsers
        /\ Users' = Users \cup {row}
        /\ Bump("Users", user_id)
        /\ pending' = [op |-> "UserList.post", id |-> user_id, data |-> data]
        /\ UNCHANGED <<Countries, Locations, Trips, User_countries, last>>

\* POST /users from the re-read on, on a second connection: a row that is
\* no longer there is answered 500
UserList_post_reread ==
    /\ pending.op = "UserList.post"
    /\ LET new_user == {u \in Users : u.user_id = pending.id}
       IN  IF new_user = {}
             THEN Complete("UserList.post", 0, pending.data, 500, "storage", {})
             ELSE Complete("UserList.post", pending.id, pending.data,
                           201, "ok", new_user)
    /\ UNCHANGED <<tables, sqlite_sequence>>

\* GET /users/<id>
UserResource_get(id) ==
    /\ IF id \notin UserIds
         THEN Respond("UserResource.get", id, NoData, 404, "not_found", {})
         ELSE Respond("UserResource.get", id, NoData, 200, "ok",
                      {u \in Users : u.user_id = id})
    /\ UNCHANGED <<tables, sqlite_sequence>>

\* Mutant of UserResource_put: the row is replaced by a fresh one, its
\* created_at taken from the clock at the time of the update
UserResource_put_FreshRow(id, data) ==
    \E now \in CURRENT_TIMESTAMP :
    LET username == Strip(data.username)
        email == Strip(data.email)
        profile_url == IF data.profile_url # NoneStr
                         THEN Strip(data.profile_url) ELSE NoneStr
        row == [user_id |-> id, username |-> username,
                email |-> email, profile_url |-> profile_url,
                created_at |-> now]
        others == {u \in Users : u.user_id # id}
    IN  IF username = "" \/ email = ""
          THEN /\ Respond("UserResource.put", id, data, 400, "validation", {})
               /\ UNCHANGED <<tables, sqlite_sequence>>
        ELSE IF id \notin UserIds
          THEN /\ Respond("UserResource.put", id, data, 404, "not_found", {})
               /\ UNCHANGED <<tables, sqlite_sequence>>
        ELSE IF UsersConstraint(row, others) # ""
          THEN /\ Respond("UserResource.put", id, data, 409, "conflict", {})
               /\ UNCHANGED <<tables, sqlite_sequence>>
        ELSE /\ Users' = others \cup {row}
             /\ Respond("UserResource.put", id, data, 200, "ok",
                        {u \in Users' : u.user_id = id})
             /\ UNCHANGED <<Countries, Locations, Trips, User_countries,
                            sqlite_sequence>>

\* PUT /users/<id>: the UPDATE sets username, email and profile_url and
\* names no other column
UserResource_put(id, data) ==
    LET username == Strip(data.username)
        email == Strip(data.email)
        profile_url == IF data.profile_url # NoneStr
                         THEN Strip(data.profile_url) ELSE NoneStr
        current == CHOOSE u \in Users : u.user_id = id
        row == [user_id |-> id, username |-> username,
                email |-> email, profile_url |-> profile_url,
                created_at |-> current.created_at]
        others == {u \in Users : u.user_id # id}
    IN  IF username = "" \/ email = ""
          THEN /\ Respond("UserResource.put", id, data, 400, "validation", {})
               /\ UNCHANGED <<tables, sqlite_sequence>>
        ELSE IF id \notin UserIds
          THEN /\ Respond("UserResource.put", id, data, 404, "not_found", {})
               /\ UNCHANGED <<tables, sqlite_sequence>>
        ELSE IF UsersConstraint(row, others) # ""
          THEN /\ Respond("UserResource.put", id, data, 409, "conflict", {})
               /\ UNCHANGED <<tables, sqlite_sequence>>
        ELSE /\ Users' = others \cup {row}
             /\ Respond("UserResource.put", id, data, 200, "ok",
                        {u \in Users' : u.user_id = id})
             /\ UNCHANGED <<Countries, Locations, Trips, User_countries,
                            sqlite_sequence>>

\* PUT /users/<id> up to the UPDATE: the payload is complete and the SELECT
\* found the row
UserResource_put_check(id, data) ==
    /\ ~(Strip(data.username) = "" \/ Strip(data.email) = "")
    /\ id \in UserIds
    /\ Suspend("UserResource.put", id, data)

\* PUT /users/<id> from the UPDATE on, run on the table as it is by then:
\* an UPDATE that matches no row raises nothing, and the re-read that
\* follows it answers 404
UserResource_put_update ==
    /\ pending.op = "UserResource.put"
    /\ LET id == pending.id
           data == pending.data
           others == {u \in Users : u.user_id # id}
       IN  IF id \notin UserIds
             THEN /\ Complete("UserResource.put", id, data,
                              404, "not_found", {})
                  /\ UNCHANGED <<tables, sqlite_sequence>>
           ELSE LET current == CHOOSE u \in Users : u.user_id = id
                    row == [user_id |-> id,
                            username |-> Strip(data.username),
                            email |-> Strip(data.email),
                            profile_url |-> IF data.profile_url # NoneStr
                                              THEN Strip(data.profile_url)
                                              ELSE NoneStr,
                            created_at |-> current.created_at]
                IN  IF UsersConstraint(row, others) # ""
                      THEN /\ Complete("UserResource.put", id, data,
                                       409, "conflict", {})
                           /\ UNCHANGED <<tables, sqlite_sequence>>
                    ELSE /\ Users' = others \cup {row}
                         /\ Complete("UserResource.put", id, data, 200, "ok",
                                     {u \in Users' : u.user_id = id})
                         /\ UNCHANGED <<Countries, Locations, Trips,
                                        User_countries, sqlite_sequence>>

\* Mutant of UserResource_delete: a cascade done by hand, the user's link
\* rows deleted and committed before the DELETE of the user is tried
UserResource_delete_LinksFirst(id) ==
    LET links == {k \in User_countries : k[1] = id}
    IN  IF id \in UserIds /\ \/ \E l \in Locations : l.user_id = id
                             \/ \E t \in Trips : t.user_id = id
          THEN /\ User_countries' = User_countries \ links
               /\ Respond("UserResource.delete", id, NoData, 500, "unhandled", {})
               /\ UNCHANGED <<Users, Countries, Locations, Trips,
                              sqlite_sequence>>
        ELSE IF id \notin UserIds
          THEN /\ Respond("UserResource.delete", id, NoData, 404, "not_found", {})
               /\ UNCHANGED <<tables, sqlite_sequence>>
        ELSE /\ Users' = {u \in Users : u.user_id # id}
             /\ User_countries' = User_countries \ links
             /\ Respond("UserResource.delete", id, NoData, 204, "ok", {})
             /\ UNCHANGED <<Countries, Locations, Trips, sqlite_sequence>>

\* DELETE /users/<id>: the DELETE statement is not inside a try block, so
\* the IntegrityError of a referenced user leaves the handler untranslated.
UserResource_delete(id) ==
    IF id \in UserIds /\ UserReferenced(id)
      THEN /\ Respond("UserResource.delete", id, NoData, 500, "unhandled", {})
           /\ UNCHANGED <<tables, sqlite_sequence>>
    ELSE IF id \notin UserIds
      THEN \* cursor.rowcount == 0
           /\ Respond("UserResource.delete", id, NoData, 404, "not_found", {})
           /\ UNCHANGED <<tables, sqlite_sequence>>
    ELSE /\ Users' = {u \in Users : u.user_id # id}
         /\ Respond("UserResource.delete", id, NoData, 204, "ok", {})
         /\ UNCHANGED <<Countries, Locations, Trips, User_countries,
                        sqlite_sequence>>

\* Mutant of UserAssociatedCountriesList_get: an empty result answered 404,
\* as the user-scoped listings of locations and trips do
UserAssociatedCountriesList_get_EmptyIs404(id) ==
    LET countries == {c \in Countries :
                         \E uc \in User_countries :
                             c.country_id = uc[2] /\ uc[1] = id}
    IN  /\ IF id \notin UserIds \/ countries = {}
             THEN Respond("UserAssociatedCountriesList.get", id, NoData,
                          404, "not_found", {})
             ELSE Respond("UserAssociatedCountriesList.get", id, NoData,
                          200, "ok", countries)
        /\ UNCHANGED <<tables, sqlite_sequence>>

\* GET /users/<id>/countries
UserAssociatedCountriesList_get(id) ==
    /\ IF id \notin UserIds
         THEN Respond("UserAssociatedCountriesList.get", id, NoData,
                      404, "not_found", {})
         ELSE Respond("UserAssociatedCountriesList.get", id, NoData, 200, "ok",
                      {c \in Countries :
                          \E uc \in User_countries :
                              c.country_id = uc[2] /\ uc[1] = id})
    /\ UNCHANGED <<tables, sqlite_sequence>>

----------------------------------------------------------------------------
(* resources/countries.py *)

\* POST /countries
CountryList_post(data) ==
    LET country_code3_input == Upper(Strip(data.country_code3))
        country_name_input == Strip(data.country)
        country_id == NextId("Countries")
        row == [country_id |-> country_id,
                country_code3 |-> country_code3_input,
                country |-> country_name_input]
    IN  IF country_code3_input = "" \/ ~IsAlpha3(country_code3_input)
           \/ country_name_input = ""
          THEN /\ Respond("CountryList.post", 0, data, 400, "validation", {})
               /\ UNCHANGED <<tables, sqlite_sequence>>
        ELSE IF \E c \in Countries : c.country_code3 = country_code3_input
          THEN /\ Respond("CountryList.post", 0, data, 409, "conflict", {})
               /\ UNCHANGED <<tables, sqlite_sequence>>
        ELSE IF \E c \in Countries : Lower(c.country) = Lower(country_name_input)
          THEN /\ Respond("CountryList.post", 0, data, 409, "conflict", {})
               /\ UNCHANGED <<tables, sqlite_sequence>>
        ELSE IF CountriesConstraint(row, Countries) # ""
          THEN /\ Respond("CountryList.post", 0, data, 409, "conflict", {})
               /\ UNCHANGED <<tables, sqlite_sequence>>
        ELSE /\ country_id <= MaxCountries
             /\ Countries' = Countries \cup {row}
             /\ Bump("Countries", country_id)
             /\ Respond("CountryList.post", country_id, data, 201, "ok",
                        {c \in Countries' : c.country_id = country_id})
             /\ UNCHANGED <<Users, Locations, Trips, User_countries>>

\* POST /countries up to the INSERT: the payload is valid and neither the
\* SELECT by code nor the SELECT by LOWER(country) found a row
CountryList_post_check(data) ==
    LET country_code3_input == Upper(Strip(data.country_code3))
        country_name_input == Strip(data.country)
    IN  /\ ~( country_code3_input = "" \/ ~IsAlpha3(country_code3_input)
              \/ country_name_input = "" )
        /\ ~\E c \in Countries : c.country_code3 = country_code3_input
        /\ ~\E c \in Countries : Lower(c.country) = Lower(country_name_input)
        /\ Suspend("CountryList.post", 0, data)

\* POST /countries from the INSERT on, run on the table as it is by then:
\* only the UNIQUE columns of the table stand between the row and the table
CountryList_post_insert ==
    /\ pending.op = "CountryList.post"
    /\ LET data == pending.data
           country_id == NextId("Countries")
           row == [country_id |-> country_id,
                   country_code3 |-> Upper(Strip(data.country_code3)),
                   country |-> Strip(data.country)]
       IN  IF CountriesConstraint(row, Countries) # ""
             THEN /\ Complete("CountryList.post", 0, data, 409, "conflict", {})
                  /\ UNCHANGED <<tables, sqlite_sequence>>
           ELSE /\ country_id <= MaxCountries
                /\ Countries' = Countries \cup {row}
                /\ Bump("Countries", country_id)
                /\ Complete("CountryList.post", country_id, data, 201, "ok",
                            {c \in Countries' : c.country_id = country_id})
                /\ UNCHANGED <<Users, Locations, Trips, User_countries>>

\* GET /countries/<id>: CountryResource defines put and delete only (its get
\* is commented out), so the route is registered without GET and the
\* request is answered 405 Method Not Allowed whatever the table holds
CountryResource_get(id) ==
    /\ Respond("CountryResource.get", id, NoData, 405, "no_handler", {})
    /\ UNCHANGED <<tables, sqlite_sequence>>

\* Mutant of CountryResource_put: the two pre-check SELECTs without their
\* `AND country_id != ?`, so the row being updated counts as a holder of
\* its own code and name
CountryResource_put_NoSelfExclusion(id, data) ==
    LET country_code3_input == Upper(Strip(data.country_code3))
        country_name_input == Strip(data.country)
        row == [country_id |-> id,
                country_code3 |-> country_code3_input,
                country |-> country_name_input]
        others == {c \in Countries : c.country_id # id}
    IN  IF id \notin CountryIds
          THEN /\ Respond("CountryResource.put", id, data, 404, "not_found", {})
               /\ UNCHANGED <<tables, sqlite_sequence>>
        ELSE IF country_code3_input = "" \/ ~IsAlpha3(country_code3_input)
                \/ country_name_input = ""
          THEN /\ Respond("CountryResource.put", id, data, 400, "validation", {})
               /\ UNCHANGED <<tables, sqlite_sequence>>
        ELSE IF \E c \in Countries : c.country_code3 = country_code3_input
          THEN /\ Respond("CountryResource.put", id, data, 409, "conflict", {})
               /\ UNCHANGED <<tables, sqlite_sequence>>
        ELSE IF \E c \in Countries : Lower(c.country) = Lower(country_name_input)
          THEN /\ Respond("CountryResource.put", id, data, 409, "conflict", {})
               /\ UNCHANGED <<tables, sqlite_sequence>>
        ELSE IF CountriesConstraint(row, others) # ""
          THEN /\ Respond("CountryResource.put", id, data, 409, "conflict", {})
               /\ UNCHANGED <<tables, sqlite_sequence>>
        ELSE /\ Countries' = others \cup {row}
             /\ Respond("CountryResource.put", id, data, 200, "ok",
                        {c \in Countries' : c.country_id = id})
             /\ UNCHANGED <<Users, Locations, Trips, User_countries,
                            sqlite_sequence>>

\* PUT /countries/<id>: the existence check comes before the validation
CountryResource_put(id, data) ==
    LET country_code3_input == Upper(Strip(data.country_code3))
        country_name_input == Strip(data.country)
        row == [country_id |-> id,
                country_code3 |-> country_code3_input,
                country |-> country_name_input]
        others == {c \in Countries : c.country_id # id}
    IN  IF id \notin CountryIds
          THEN /\ Respond("CountryResource.put", id, data, 404, "not_found", {})
               /\ UNCHANGED <<tables, sqlite_sequence>>
        ELSE IF country_code3_input = "" \/ ~IsAlpha3(country_code3_input)
                \/ country_name_input = ""
          THEN /\ Respond("CountryResource.put", id, data, 400, "validation", {})
               /\ UNCHANGED <<tables, sqlite_sequence>>
        ELSE IF \E c \in others : c.country_code3 = country_code3_input
          THEN /\ Respond("CountryResource.put", id, data, 409, "conflict", {})
               /\ UNCHANGED <<tables, sqlite_sequence>>
        ELSE IF \E c \in others : Lower(c.country) = Lower(country_name_input)
          THEN /\ Respond("CountryResource.put", id, data, 409, "conflict", {})
               /\ UNCHANGED <<tables, sqlite_sequence>>
        ELSE IF CountriesConstraint(row, others) # ""
          THEN /\ Respond("CountryResource.put", id, data, 409, "conflict", {})
               /\ UNCHANGED <<tables, sqlite_sequence>>
        ELSE /\ Countries' = others \cup {row}
             /\ Respond("CountryResource.put", id, data, 200, "ok",
                        {c \in Countries' : c.country_id = id})
             /\ UNCHANGED <<Users, Locations, Trips, User_countries,
                            sqlite_sequence>>

\* PUT /countries/<id> up to the UPDATE: the row exists, the payload is
\* valid and the two SELECTs found no other row with the code or the name
CountryResource_put_check(id, data) ==
    LET country_code3_input == Upper(Strip(data.country_code3))
        country_name_input == Strip(data.country)
        others == {c \in Countries : c.country_id # id}
    IN  /\ id \in CountryIds
        /\ ~( country_code3_input = "" \/ ~IsAlpha3(country_code3_input)
              \/ country_name_input = "" )
        /\ ~\E c \in others : c.country_code3 = country_code3_input
        /\ ~\E c \in others : Lower(c.country) = Lower(country_name_input)
        /\ Suspend("CountryResource.put", id, data)

\* PUT /countries/<id> from the UPDATE on, run on the table as it is by
\* then; an UPDATE that matches no row raises nothing and the re-read that
\* follows answers 404
CountryResource_put_update ==
    /\ pending.op = "CountryResource.put"
    /\ LET id == pending.id
           data == pending.data
           row == [country_id |-> id,
                   country_code3 |-> Upper(Strip(data.country_code3)),
                   country |-> Strip(data.country)]
           others == {c \in Countries : c.country_id # id}
       IN  IF id \notin CountryIds
             THEN /\ Complete("CountryResource.put", id, data,
                              404, "not_found", {})
                  /\ UNCHANGED <<tables, sqlite_sequence>>
           ELSE IF CountriesConstraint(row, others) # ""
             THEN /\ Complete("CountryResource.put", id, data,
                              409, "conflict", {})
                  /\ UNCHANGED <<tables, sqlite_sequence>>
           ELSE /\ Countries' = others \cup {row}
                /\ Complete("CountryResource.put", id, data, 200, "ok",
                            {c \in Countries' : c.country_id = id})
                /\ UNCHANGED <<Users, Locations, Trips, User_countries,
                               sqlite_sequence>>

\* DELETE /countries/<id>
CountryResource_delete(id) ==
    IF id \in CountryIds /\ CountryReferenced(id)
      THEN /\ Respond("CountryResource.delete", id, NoData, 500, "unhandled", {})
           /\ UNCHANGED <<tables, sqlite_sequence>>
    ELSE IF id \notin CountryIds
      THEN /\ Respond("CountryResource.delete", id, NoData, 404, "not_found", {})
           /\ UNCHANGED <<tables, sqlite_sequence>>
    ELSE /\ Countries' = {c \in Countries : c.country_id # id}
         /\ Respond("CountryResource.delete", id, NoData, 204, "ok", {})
         /\ UNCHANGED <<Users, Locations, Trips, User_countries,
                        sqlite_sequence>>

\* GET /countries/<id>/users
CountryAssociatedUsersList_get(id) ==
    /\ IF id \notin CountryIds
         THEN Respond("CountryAssociatedUsersList.get", id, NoData,
                      404, "not_found", {})
         ELSE Respond("CountryAssociatedUsersList.get", id, NoData, 200, "ok",
                      {u \in Users :
                          \E uc \in User_countries :
                              u.user_id = uc[1] /\ uc[2] = id})
    /\ UNCHANGED <<tables, sqlite_sequence>>

----------------------------------------------------------------------------
(* resources/locations.py *)

\* POST /locations
LocationList_post(data) ==
    LET loc_name == Strip(data.loc_name)
        location_id == NextId("Locations")
        row == [location_id |-> location_id, loc_name |-> loc_name,
                user_id |-> data.user_id, country_id |-> data.country_id,
                image_url |-> data.image_url]
        error == LocationsConstraint(row, Locations)
    IN  IF loc_name = "" \/ data.user_id = None \/ data.country_id = None
           \/ data.latitude = None \/ data.longitude = None
          THEN /\ Respond("LocationList.post", 0, data, 400, "validation", {})
               /\ UNCHANGED <<tables, sqlite_sequence>>
        ELSE IF ~user_exists(data.user_id) \/ ~country_exists(data.country_id)
          THEN /\ Respond("LocationList.post", 0, data, 400, "reference", {})
               /\ UNCHANGED <<tables, sqlite_sequence>>
        ELSE IF error = "OperationalError: no column named latitude"
          THEN \* not an IntegrityError: nothing catches it
               /\ Respond("LocationList.post", 0, data, 500, "unhandled", {})
               /\ UNCHANGED <<tables, sqlite_sequence>>
        ELSE IF error = "UNIQUE constraint failed: Locations.user_id, Locations.loc_name"
          THEN /\ Respond("LocationList.post", 0, data, 409, "conflict", {})
               /\ UNCHANGED <<tables, sqlite_sequence>>
        ELSE IF error # ""
          THEN /\ Respond("LocationList.post", 0, data, 500, "storage", {})
               /\ UNCHANGED <<tables, sqlite_sequence>>
        ELSE /\ location_id <= MaxLocations
             /\ Locations' = Locations \cup {row}
             /\ Bump("Locations", location_id)
             /\ Respond("LocationList.post", location_id, data, 201, "ok",
                        {l \in Locations' : l.location_id = location_id})
             /\ UNCHANGED <<Users, Countries, Trips, User_countries>>

\* POST /locations up to the INSERT: the payload is complete and both
\* SELECTs found their row
LocationList_post_check(data) ==
    /\ ~( Strip(data.loc_name) = "" \/ data.user_id = None
          \/ data.country_id = None
          \/ data.latitude = None \/ data.longitude = None )
    /\ user_exists(data.user_id) /\ country_exists(data.country_id)
    /\ Suspend("LocationList.post", 0, data)

\* POST /locations from the INSERT on, run on the tables as they are by then
LocationList_post_insert ==
    /\ pending.op = "LocationList.post"
    /\ LET data == pending.data
           location_id == NextId("Locations")
           row == [location_id |-> location_id, loc_name |-> Strip(data.loc_name),
                   user_id |-> data.user_id, country_id |-> data.country_id,
                   image_url |-> data.image_url]
           error == LocationsConstraint(row, Locations)
       IN  IF error = "OperationalError: no column named latitude"
             THEN /\ Complete("LocationList.post", 0, data, 500, "unhandled", {})
                  /\ UNCHANGED <<tables, sqlite_sequence>>
           ELSE IF error = "UNIQUE constraint failed: Locations.user_id, Locations.loc_name"
             THEN /\ Complete("LocationList.post", 0, data, 409, "conflict", {})
                  /\ UNCHANGED <<tables, sqlite_sequence>>
           ELSE IF error # ""
             THEN /\ Complete("LocationList.post", 0, data, 500, "storage", {})
                  /\ UNCHANGED <<tables, sqlite_sequence>>
           ELSE /\ location_id <= MaxLocations
                /\ Locations' = Locations \cup {row}
                /\ Bump("Locations", location_id)
                /\ Complete("LocationList.post", location_id, data, 201, "ok",
                            {l \in Locations' : l.location_id = location_id})
                /\ UNCHANGED <<Users, Countries, Trips, User_countries>>

\* GET /locations/<location_id>
LocationResource_get(location_id) ==
    /\ IF location_id \notin LocationIds
         THEN Respond("LocationResource.get", location_id, NoData,
                      404, "not_found", {})
         ELSE Respond("LocationResource.get", location_id, NoData, 200, "ok",
                      {l \in Locations : l.location_id = location_id})
    /\ UNCHANGED <<tables, sqlite_sequence>>

\* PUT /locations/<location_id>
LocationResource_put(location_id, data) ==
    LET loc_name == Strip(data.loc_name)
        row == [location_id |-> location_id, loc_name |-> loc_name,
                user_id |-> data.user_id, country_id |-> data.country_id,
                image_url |-> data.image_url]
        others == {l \in Locations : l.location_id # location_id}
        error == LocationsConstraint(row, others)
    IN  IF loc_name = "" \/ data.user_id = None \/ data.country_id = None
           \/ data.latitude = None \/ data.longitude = None
          THEN /\ Respond("LocationResource.put", location_id, data,
                          400, "validation", {})
               /\ UNCHANGED <<tables, sqlite_sequence>>
        ELSE IF location_id \notin LocationIds
          THEN /\ Respond("LocationResource.put", location_id, data,
                          404, "not_found", {})
               /\ UNCHANGED <<tables, sqlite_sequence>>
        ELSE IF ~user_exists(data.user_id) \/ ~country_exists(data.country_id)
          THEN /\ Respond("LocationResource.put", location_id, data,
                          400, "reference", {})
               /\ UNCHANGED <<tables, sqlite_sequence>>
        ELSE IF error = "OperationalError: no column named latitude"
          THEN /\ Respond("LocationResource.put", location_id, data,
                          500, "unhandled", {})
               /\ UNCHANGED <<tables, sqlite_sequence>>
        ELSE IF error = "UNIQUE constraint failed: Locations.user_id, Locations.loc_name"
          THEN /\ Respond("LocationResource.put", location_id, data,
                          409, "conflict", {})
               /\ UNCHANGED <<tables, sqlite_sequence>>
        ELSE IF error # ""
          THEN /\ Respond("LocationResource.put", location_id, data,
                          500, "storage", {})
               /\ UNCHANGED <<tables, sqlite_sequence>>
        ELSE /\ Locations' = others \cup {row}
             /\ Respond("LocationResource.put", location_id, data, 200, "ok",
                        {l \in Locations' : l.location_id = location_id})
             /\ UNCHANGED <<Users, Countries, Trips, User_countries,
                            sqlite_sequence>>

\* DELETE /locations/<location_id>
LocationResource_delete(location_id) ==
    IF location_id \in LocationIds /\ LocationReferenced(location_id)
      THEN /\ Respond("LocationResource.delete", location_id, NoData,
                      500, "unhandled", {})
           /\ UNCHANGED <<tables, sqlite_sequence>>
    ELSE IF location_id \notin LocationIds
      THEN /\ Respond("LocationResource.delete", location_id, NoData,
                      404, "not_found", {})
           /\ UNCHANGED <<tables, sqlite_sequence>>
    ELSE /\ Locations' = {l \in Locations : l.location_id # location_id}
         /\ Respond("LocationResource.delete", location_id, NoData,
                    204, "ok", {})
         /\ UNCHANGED <<Users, Countries, Trips, User_countries,
                        sqlite_sequence>>

\* GET /locations/user/<user_id>
UserLocations_get(user_id) ==
    LET locations == {l \in Locations : l.user_id = user_id}
    IN  /\ IF user_id \notin UserIds
             THEN Respond("UserLocations.get", user_id, NoData,
                          404, "not_found", {})
           ELSE IF locations = {}
             THEN \* if not locations: abort(404)
                  Respond("UserLocations.get", user_id, NoData,
                          404, "not_found", {})
           ELSE Respond("UserLocations.get", user_id, NoData,
                        200, "ok", locations)
        /\ UNCHANGED <<tables, sqlite_sequence>>

----------------------------------------------------------------------------
(* resources/trips.py *)

\* Mutant of TripList_post: the INSERT binds startdate to both date columns
TripList_post_EnddateFromStartdate(data) ==
    LET trip_name == Strip(data.trip_name)
        trip_id == NextId("Trips")
        row == [trip_id |-> trip_id, trip_name |-> trip_name,
                user_id |-> data.user_id, country_id |-> data.country_id,
                location_id |-> None,
                startdate |-> data.startdate, enddate |-> data.startdate]
        error == TripsConstraint(row, Trips)
    IN  IF trip_name = "" \/ data.user_id = None \/ data.country_id = None
          THEN /\ Respond("TripList.post", 0, data, 400, "validation", {})
               /\ UNCHANGED <<tables, sqlite_sequence>>
        ELSE IF ~user_exists(data.user_id) \/ ~country_exists(data.country_id)
          THEN /\ Respond("TripList.post", 0, data, 400, "reference", {})
               /\ UNCHANGED <<tables, sqlite_sequence>>
        ELSE IF error = "UNIQUE constraint failed: Trips.user_id, Trips.trip_name"
          THEN /\ Respond("TripList.post", 0, data, 409, "conflict", {})
               /\ UNCHANGED <<tables, sqlite_sequence>>
        ELSE IF error # ""
          THEN /\ Respond("TripList.post", 0, data, 500, "storage", {})
               /\ UNCHANGED <<tables, sqlite_sequence>>
        ELSE /\ trip_id <= MaxTrips
             /\ Trips' = Trips \cup {row}
             /\ Bump("Trips", trip_id)
             /\ Respond("TripList.post", trip_id, data, 201, "ok",
                        {t \in Trips' : t.trip_id = trip_id})
             /\ UNCHANGED <<Users, Countries, Locations, User_countries>>

\* POST /trips
TripList_post(data) ==
    LET trip_name == Strip(data.trip_name)
        trip_id == NextId("Trips")
        row == [trip_id |-> trip_id, trip_name |-> trip_name,
                user_id |-> data.user_id, country_id |-> data.country_id,
                location_id |-> None,
                startdate |-> data.startdate, enddate |-> data.enddate]
        error == TripsConstraint(row, Trips)
    IN  IF trip_name = "" \/ data.user_id = None \/ data.country_id = None
          THEN /\ Respond("TripList.post", 0, data, 400, "validation", {})
               /\ UNCHANGED <<tables, sqlite_sequence>>
        ELSE IF ~user_exists(data.user_id) \/ ~country_exists(data.country_id)
          THEN /\ Respond("TripList.post", 0, data, 400, "reference", {})
               /\ UNCHANGED <<tables, sqlite_sequence>>
        ELSE IF error = "UNIQUE constraint failed: Trips.user_id, Trips.trip_name"
          THEN /\ Respond("TripList.post", 0, data, 409, "conflict", {})
               /\ UNCHANGED <<tables, sqlite_sequence>>
        ELSE IF error # ""
          THEN /\ Respond("TripList.post", 0, data, 500, "storage", {})
               /\ UNCHANGED <<tables, sqlite_sequence>>
        ELSE /\ trip_id <= MaxTrips
             /\ Trips' = Trips \cup {row}
             /\ Bump("Trips", trip_id)
             /\ Respond("TripList.post", trip_id, data, 201, "ok",
                        {t \in Trips' : t.trip_id = trip_id})
             /\ UNCHANGED <<Users, Countries, Locations, User_countries>>

\* POST /trips up to the INSERT: the payload is complete and both SELECTs
\* found their row
TripList_post_check(data) ==
    /\ ~( Strip(data.trip_name) = "" \/ data.user_id = None
          \/ data.country_id = None )
    /\ user_exists(data.user_id) /\ country_exists(data.country_id)
    /\ Suspend("TripList.post", 0, data)

\* POST /trips from the INSERT on, run on the tables as they are by then
TripList_post_insert ==
    /\ pending.op = "TripList.post"
    /\ LET data == pending.data
           trip_id == NextId("Trips")
           row == [trip_id |-> trip_id, trip_name |-> Strip(data.trip_name),
                   user_id |-> data.user_id, country_id |-> data.country_id,
                   location_id |-> None,
                   startdate |-> data.startdate, enddate |-> data.enddate]
           error == TripsConstraint(row, Trips)
       IN  IF error = "UNIQUE constraint failed: Trips.user_id, Trips.trip_name"
             THEN /\ Complete("TripList.post", 0, data, 409, "conflict", {})
                  /\ UNCHANGED <<tables, sqlite_sequence>>
           ELSE IF error # ""
             THEN /\ Complete("TripList.post", 0, data, 500, "storage", {})
                  /\ UNCHANGED <<tables, sqlite_sequence>>
           ELSE /\ trip_id <= MaxTrips
                /\ Trips' = Trips \cup {row}
                /\ Bump("Trips", trip_id)
                /\ Complete("TripList.post", trip_id, data, 201, "ok",
                            {t \in Trips' : t.trip_id = trip_id})
                /\ UNCHANGED <<Users, Countries, Locations, User_countries>>

\* GET /trips/<trip_id>
TripResource_get(trip_id) ==
    /\ IF trip_id \notin TripIds
         THEN Respond("TripResource.get", trip_id, NoData, 404, "not_found", {})
         ELSE Respond("TripResource.get", trip_id, NoData, 200, "ok",
                      {t \in Trips : t.trip_id = trip_id})
    /\ UNCHANGED <<tables, sqlite_sequence>>

\* PUT /trips/<trip_id>
TripResource_put(trip_id, data) ==
    LET trip_name == Strip(data.trip_name)
        others == {t \in Trips : t.trip_id # trip_id}
        Updated(t) == [t EXCEPT !.trip_name = trip_name,
                                !.user_id = data.user_id,
                                !.country_id = data.country_id,
                                !.startdate = data.startdate,
                                !.enddate = data.enddate]
        current == CHOOSE t \in Trips : t.trip_id = trip_id
        error == TripsConstraint(Updated(current), others)
    IN  IF trip_name = "" \/ data.user_id = None \/ data.country_id = None
          THEN /\ Respond("TripResource.put", trip_id, data, 400, "validation", {})
               /\ UNCHANGED <<tables, sqlite_sequence>>
        ELSE IF trip_id \notin TripIds
          THEN /\ Respond("TripResource.put", trip_id, data, 404, "not_found", {})
               /\ UNCHANGED <<tables, sqlite_sequence>>
        ELSE IF ~user_exists(data.user_id) \/ ~country_exists(data.country_id)
          THEN /\ Respond("TripResource.put", trip_id, data, 400, "reference", {})
               /\ UNCHANGED <<tables, sqlite_sequence>>
        ELSE IF error = "UNIQUE constraint failed: Trips.user_id, Trips.trip_name"
          THEN /\ Respond("TripResource.put", trip_id, data, 409, "conflict", {})
               /\ UNCHANGED <<tables, sqlite_sequence>>
        ELSE IF error # ""
          THEN /\ Respond("TripResource.put", trip_id, data, 500, "storage", {})
               /\ UNCHANGED <<tables, sqlite_sequence>>
        ELSE /\ Trips' = others \cup {Updated(current)}
             /\ Respond("TripResource.put", trip_id, data, 200, "ok",
                        {t \in Trips' : t.trip_id = trip_id})
             /\ UNCHANGED <<Users, Countries, Locations, User_countries,
                            sqlite_sequence>>

\* DELETE /trips/<trip_id>
TripResource_delete(trip_id) ==
    IF trip_id \notin TripIds
      THEN /\ Respond("TripResource.delete", trip_id, NoData,
                      404, "not_found", {})
           /\ UNCHANGED <<tables, sqlite_sequence>>
    ELSE /\ Trips' = {t \in Trips : t.trip_id # trip_id}
         /\ Respond("TripResource.delete", trip_id, NoData, 204, "ok", {})
         /\ UNCHANGED <<Users, Countries, Locations, User_countries,
                        sqlite_sequence>>

\* Mutant of TripsByUser_get: the listing without the check of the user
TripsByUser_get_NoUserCheck(user_id) ==
    /\ Respond("TripsByUser.get", user_id, NoData, 200, "ok",
               {t \in Trips : t.user_id = user_id})
    /\ UNCHANGED <<tables, sqlite_sequence>>

\* GET /trips/user/<user_id>
TripsByUser_get(user_id) ==
    LET trips == {t \in Trips : t.user_id = user_id}
    IN  /\ IF user_id \notin UserIds
             THEN Respond("TripsByUser.get", user_id, NoData,
                          404, "not_found", {})
           ELSE IF trips = {}
             THEN \* if not trips: abort(404)
                  Respond("TripsByUser.get", user_id, NoData,
                          404, "not_found", {})
           ELSE Respond("TripsByUser.get", user_id, NoData, 200, "ok", trips)
        /\ UNCHANGED <<tables, sqlite_sequence>>

----------------------------------------------------------------------------
(* resources/user_countries.py *)

\* GET /user-countries
UserCountryLinkList_get ==
    /\ Respond("UserCountryLinkList.get", 0, NoData, 200, "ok",
               {<<k[1], k[2]>> : k \in User_countries})
    /\ UNCHANGED <<tables, sqlite_sequence>>

\* POST /user-countries
UserCountryLinkList_post(data) ==
    LET link == <<data.user_id, data.country_id>>
    IN  IF data.user_id = None \/ data.country_id = None
          THEN /\ Respond("UserCountryLinkList.post", 0, data,
                          400, "validation", {})
               /\ UNCHANGED <<tables, sqlite_sequence>>
        ELSE IF ~user_exists(data.user_id) \/ ~country_exists(data.country_id)
          THEN /\ Respond("UserCountryLinkList.post", 0, data,
                          400, "reference", {})
               /\ UNCHANGED <<tables, sqlite_sequence>>
        ELSE IF User_countriesConstraint(link) # ""
          THEN \* except sqlite3.IntegrityError
               /\ Respond("UserCountryLinkList.post", 0, data,
                          409, "conflict", {})
               /\ UNCHANGED <<tables, sqlite_sequence>>
        ELSE /\ User_countries' = User_countries \cup
                   {<<data.user_id, data.country_id,
                      Cardinality(LinkRows(data.user_id, data.country_id)) + 1>>}
             /\ Respond("UserCountryLinkList.post", 0, data, 201, "ok", {link})
             /\ UNCHANGED <<Users, Countries, Locations, Trips,
                            sqlite_sequence>>

\* POST /user-countries up to the INSERT: both ids given, both SELECTs
\* found their row
UserCountryLinkList_post_check(data) ==
    /\ data.user_id # None /\ data.country_id # None
    /\ user_exists(data.user_id) /\ country_exists(data.country_id)
    /\ Suspend("UserCountryLinkList.post", 0, data)

\* POST /user-countries from the INSERT on: every IntegrityError, the
\* FOREIGN KEY failure included, is answered 409
UserCountryLinkList_post_insert ==
    /\ pending.op = "UserCountryLinkList.post"
    /\ LET data == pending.data
           link == <<data.user_id, data.country_id>>
       IN  IF User_countriesConstraint(link) # ""
             THEN /\ Complete("UserCountryLinkList.post", 0, data,
                              409, "conflict", {})
                  /\ UNCHANGED <<tables, sqlite_sequence>>
           ELSE /\ User_countries' = User_countries \cup
                      {<<data.user_id, data.country_id,
                         Cardinality(LinkRows(data.user_id, data.country_id)) + 1>>}
                /\ Complete("UserCountryLinkList.post", 0, data, 201, "ok", {link})
                /\ UNCHANGED <<Users, Countries, Locations, Trips,
                               sqlite_sequence>>

\* GET /user-countries/<user_id>/<country_id>
SpecificUserCountryLink_get(user_id, country_id) ==
    LET data == [user_id |-> user_id, country_id |-> country_id]
    IN  /\ IF LinkRows(user_id, country_id) = {}
             THEN Respond("SpecificUserCountryLink.get", 0, data,
                          404, "not_found", {})
             ELSE Respond("SpecificUserCountryLink.get", 0, data, 200, "ok",
                          {<<user_id, country_id>>})
        /\ UNCHANGED <<tables, sqlite_sequence>>

\* DELETE /user-countries/<user_id>/<country_id>
SpecificUserCountryLink_delete(user_id, country_id) ==
    LET data == [user_id |-> user_id, country_id |-> country_id]
    IN  IF LinkRows(user_id, country_id) = {}
          THEN /\ Respond("SpecificUserCountryLink.delete", 0, data,
                          404, "not_found", {})
               /\ UNCHANGED <<tables, sqlite_sequence>>
        ELSE /\ User_countries' = User_countries \ LinkRows(user_id, country_id)
             /\ Respond("SpecificUserCountryLink.delete", 0, data,
                        204, "ok", {})
             /\ UNCHANGED <<Users, Countries, Locations, Trips,
                            sqlite_sequence>>

----------------------------------------------------------------------------------------------------------------------------------------
(* The requests explored *)

UserIdInputs == 1 .. MaxUsers
CountryIdInputs == 1 .. MaxCountries
LocationIdInputs == 1 .. MaxLocations
TripIdInputs == 1 .. MaxTrips

UserPayloads ==
    {[username |-> " alice ", email |-> "a@x.com", profile_url |-> NoneStr],
     [username |-> "   ", email |-> "a@x.com", profile_url |-> NoneStr]}

CountryPayloads ==
    {[country_code3 |-> "fra", country |-> "France"],
     [country_code3 |-> "ZZZ", country |-> "France"]}

LocationPayloads ==
    [loc_name : {"Louvre"}, user_id : UserIdInputs, country_id : {1},
     image_url : {NoneStr}, latitude : {48}, longitude : {2}]
    \cup {[loc_name |-> "Louvre", user_id |-> 1, country_id |-> 2,
           image_url |-> NoneStr, latitude |-> 48, longitude |-> 2],
          [loc_name |-> "Louvre", user_id |-> 1, country_id |-> 1,
           image_url |-> NoneStr, latitude |-> None, longitude |-> None]}

\* LocationResource.put reads the same fields; no Location row is ever
\* stored, so one complete and one incomplete payload reach all it does
LocationUpdatePayloads ==
    {[loc_name |-> "Louvre", user_id |-> 1, country_id |-> 1,
      image_url |-> NoneStr, latitude |-> 48, longitude |-> 2],
     [loc_name |-> "Louvre", user_id |-> 1, country_id |-> 1,
      image_url |-> NoneStr, latitude |-> None, longitude |-> None]}

TripPayloads ==
    [trip_name : {"Rome"}, user_id : UserIdInputs, country_id : {1},
     startdate : {"2024-07-01"}, enddate : {"2024-07-15"}]
    \cup {[trip_name |-> "Rome", user_id |-> 1, country_id |-> 2,
           startdate |-> "2024-07-01", enddate |-> "2024-07-15"],
          [trip_name |-> "", user_id |-> None, country_id |-> 1,
           startdate |-> NoneStr, enddate |-> NoneStr]}

LinkPayloads ==
    [user_id : UserIdInputs, country_id : {1}]
    \cup {[user_id |-> 1, country_id |-> 2],
          [user_id |-> None, country_id |-> 1]}

----------------
(* The state after app.py's start on a new database file: create_tables()  *)
(* followed by ensure_default_data().                                      *)
Init ==
    /\ Users = {[user_id |-> 1, username |-> "default_user",
                 email |-> "default@example.com", profile_url |-> NoneStr,
                 created_at |-> "2024-01-01 00:00:00"]}
    /\ Countries = {[country_id |-> 1, country_code3 |-> "USA",
                     country |-> "United States"]}
    /\ Locations = {}
    /\ Trips = {}
    /\ User_countries = {<<1, 1, 1>>}
    /\ sqlite_sequence = [Users |-> 1, Countries |-> 1,
                          Locations |-> 0, Trips |-> 0]
    /\ last = [op |-> "start", id |-> 0, data |-> NoData,
               status |-> 0, kind |-> "ok", body |-> {},
               acquired |-> 0, closed |-> 0]
    /\ pending = NoPending

Next ==
    \/ UserList_get
    \/ \E data \in UserPayloads : UserList_post(data)
    \/ \E id \in UserIdInputs : UserResource_get(id)
    \/ \E id \in UserIdInputs, data \in UserPayloads : UserResource_put(id, data)
    \/ \E id \in UserIdInputs : UserResource_delete(id)
    \/ \E id \in UserIdInputs : UserAssociatedCountriesList_get(id)
    \/ \E data \in CountryPayloads : CountryList_post(data)
    \/ \E id \in CountryIdInputs : CountryResource_get(id)
    \/ \E id \in CountryIdInputs, data \in CountryPayloads :
          CountryResource_put(id, data)
    \/ \E id \in CountryIdInputs : CountryResource_delete(id)
    \/ \E id \in CountryIdInputs : CountryAssociatedUsersList_get(id)
    \/ \E data \in LocationPayloads : LocationList_post(data)
    \/ \E id \in LocationIdInputs : LocationResource_get(id)
    \/ \E id \in LocationIdInputs, data \in LocationUpdatePayloads :
          LocationResource_put(id, data)
    \/ \E id \in LocationIdInputs : LocationResource_delete(id)
    \/ \E id \in UserIdInputs : UserLocations_get(id)
    \/ \E data \in TripPayloads : TripList_post(data)
    \/ \E id \in TripIdInputs : TripResource_get(id)
    \/ \E id \in TripIdInputs, data \in TripPayloads : TripResource_put(id, data)
    \/ \E id \in TripIdInputs : TripResource_delete(id)
    \/ \E id \in UserIdInputs : TripsByUser_get(id)
    \/ UserCountryLinkList_get
    \/ \E data \in LinkPayloads : UserCountryLinkList_post(data)
    \/ \E u \in UserIdInputs, c \in CountryIdInputs :
          SpecificUserCountryLink_get(u, c)
    \/ \E u \in UserIdInputs, c \in CountryIdInputs :
          SpecificUserCountryLink_delete(u, c)

Spec == Init /\ [][Next]_vars

----------------------------------------------------------------------------
(* The user handlers alone, with requests that collide on the username    *)
(* only, on the email only, and on both.                                   *)

UserPayloadsRich ==
    [username : {"default_user", " alice "},
     email : {"default@example.com", "a@x.com"},
     profile_url : {NoneStr}]
    \cup {[username |-> "   ", email |-> "a@x.com", profile_url |-> NoneStr],
          [username |-> " alice ", email |-> "", profile_url |-> NoneStr]}

NextUsers ==
    \/ UserList_get
    \/ \E data \in UserPayloadsRich : UserList_post(data)
    \/ \E id \in UserIdInputs : UserResource_get(id)
    \/ \E id \in UserIdInputs, data \in UserPayloadsRich :
          UserResource_put(id, data)
    \/ \E id \in UserIdInputs : UserResource_delete(id)
    \/ \E id \in UserIdInputs : UserAssociatedCountriesList_get(id)
    \/ \E data \in LinkPayloads : UserCountryLinkList_post(data)
    \/ \E u \in UserIdInputs, c \in CountryIdInputs :
          SpecificUserCountryLink_delete(u, c)

SpecUsers == Init /\ [][NextUsers]_vars

(* The trip handlers, with requests that collide on (user_id, trip_name),  *)
(* move a trip to another owner, and leave out or reverse the dates.       *)

TripPayloadsRich ==
    [trip_name : {"Rome", "Oslo"}, user_id : UserIdInputs, country_id : {1},
     startdate : {"2024-07-01"}, enddate : {"2024-07-15"}]
    \cup [trip_name : {" Rome "}, user_id : UserIdInputs, country_id : {1},
          startdate : {NoneStr}, enddate : {"2024-07-15"}]
    \cup {[trip_name |-> "Oslo", user_id |-> 1, country_id |-> 1,
           startdate |-> "2024-07-15", enddate |-> "2024-07-01"],
          [trip_name |-> "Oslo", user_id |-> 1, country_id |-> 1,
           startdate |-> "2024-07-01", enddate |-> NoneStr],
          [trip_name |-> " Rome ", user_id |-> 1, country_id |-> 1,
           startdate |-> "2024-07-01", enddate |-> "2024-07-15"],
          [trip_name |-> "   ", user_id |-> 1, country_id |-> 1,
           startdate |-> "2024-07-01", enddate |-> "2024-07-15"]}

NextTrips ==
    \/ \E data \in TripPayloadsRich : TripList_post(data)
    \/ \E id \in TripIdInputs : TripResource_get(id)
    \/ \E id \in TripIdInputs, data \in TripPayloadsRich :
          TripResource_put(id, data)
    \/ \E id \in TripIdInputs : TripResource_delete(id)
    \/ \E id \in UserIdInputs : TripsByUser_get(id)
    \/ \E data \in UserPayloads : UserList_post(data)
    \/ \E id \in UserIdInputs : UserResource_delete(id)
    \/ \E u \in UserIdInputs, c \in CountryIdInputs :
          SpecificUserCountryLink_delete(u, c)
    \/ \E id \in CountryIdInputs : CountryResource_delete(id)

SpecTrips == Init /\ [][NextTrips]_vars

(* Create and Read-by-id of the entities that have both, with the deletes  *)
(* that make room; the payloads carry surrounding whitespace.              *)
UserPayloadsProfile ==
    UserPayloads
    \cup {[username |-> " alice ", email |-> "a@x.com", profile_url |-> " p.png "]}

NextRoundTrip ==
    \/ \E data \in UserPayloadsProfile : UserList_post(data)
    \/ \E id \in UserIdInputs : UserResource_get(id)
    \/ \E id \in UserIdInputs : UserResource_delete(id)
    \/ \E data \in LocationPayloads : LocationList_post(data)
    \/ \E id \in LocationIdInputs : LocationResource_get(id)
    \/ \E data \in TripPayloadsRich : TripList_post(data)
    \/ \E id \in TripIdInputs : TripResource_get(id)
    \/ \E id \in TripIdInputs : TripResource_delete(id)
    \/ \E data \in LinkPayloads : UserCountryLinkList_post(data)
    \/ \E u \in UserIdInputs, c \in CountryIdInputs :
          SpecificUserCountryLink_get(u, c)
    \/ \E u \in UserIdInputs, c \in CountryIdInputs :
          SpecificUserCountryLink_delete(u, c)

SpecRoundTrip == Init /\ [][NextRoundTrip]_vars

(* The schema initializer run on a database in use.                        *)
NextSchema ==
    \/ create_tables
    \/ \E data \in UserPayloads : UserList_post(data)
    \/ \E id \in UserIdInputs : UserResource_delete(id)
    \/ \E data \in TripPayloads : TripList_post(data)
    \/ \E id \in TripIdInputs : TripResource_delete(id)
    \/ \E data \in LinkPayloads : UserCountryLinkList_post(data)
    \/ \E u \in UserIdInputs, c \in CountryIdInputs :
          SpecificUserCountryLink_delete(u, c)

SpecSchema == Init /\ [][NextSchema]_vars

(* Creates of the referencing entities, stopped between their pre-checks    *)
(* and their INSERT while the requests of other threads delete and create  *)
(* the rows they reference.                                                *)
NextRace ==
    \/ \E data \in LocationPayloads : LocationList_post_check(data)
    \/ LocationList_post_insert
    \/ \E data \in TripPayloads : TripList_post_check(data)
    \/ TripList_post_insert
    \/ \E data \in LinkPayloads : UserCountryLinkList_post_check(data)
    \/ UserCountryLinkList_post_insert
    \/ \E data \in UserPayloads : UserList_post(data)
    \/ \E id \in UserIdInputs : UserResource_delete(id)
    \/ \E data \in CountryPayloads : CountryList_post(data)
    \/ \E id \in CountryIdInputs : CountryResource_delete(id)
    \/ \E id \in TripIdInputs : TripResource_delete(id)
    \/ \E u \in UserIdInputs, c \in CountryIdInputs :
          SpecificUserCountryLink_delete(u, c)

SpecRace == Init /\ [][NextRace]_vars

(* Creates and updates of countries, stopped between their pre-checks and  *)
(* their INSERT or UPDATE while other threads create, update and delete    *)
(* countries.                                                              *)
CountryPayloadsRace ==
    {[country_code3 |-> "fra", country |-> "France"],
     [country_code3 |-> "DEU", country |-> "FRANCE"],
     [country_code3 |-> "usa", country |-> "France"],
     [country_code3 |-> "usa", country |-> "United States"]}

NextCountryRace ==
    \/ \E data \in CountryPayloadsRace : CountryList_post_check(data)
    \/ CountryList_post_insert
    \/ \E id \in CountryIdInputs, data \in CountryPayloadsRace :
          CountryResource_put_check(id, data)
    \/ CountryResource_put_update
    \/ \E data \in CountryPayloadsRace : CountryList_post(data)
    \/ \E id \in CountryIdInputs, data \in CountryPayloadsRace :
          CountryResource_put(id, data)
    \/ \E id \in CountryIdInputs : CountryResource_delete(id)
    \/ \E u \in UserIdInputs, c \in CountryIdInputs :
          SpecificUserCountryLink_delete(u, c)

SpecCountryRace == Init /\ [][NextCountryRace]_vars

(* Updates of users whose rows carry a profile_url, next to rows of the     *)
(* other tables that the update has to leave alone.                        *)
UserPayloadsUpdate ==
    UserPayloadsProfile
    \cup {[username |-> "bob", email |-> "b@x.com", profile_url |-> NoneStr]}

NextUserUpdate ==
    \/ \E data \in UserPayloadsProfile : UserList_post(data)
    \/ \E id \in UserIdInputs, data \in UserPayloadsUpdate :
          UserResource_put(id, data)
    \/ \E id \in UserIdInputs : UserResource_get(id)
    \/ \E id \in UserIdInputs : UserResource_delete(id)
    \/ \E data \in TripPayloads : TripList_post(data)
    \/ \E data \in LinkPayloads : UserCountryLinkList_post(data)
    \/ \E u \in UserIdInputs, c \in CountryIdInputs :
          SpecificUserCountryLink_delete(u, c)

SpecUserUpdate == Init /\ [][NextUserUpdate]_vars

(* Creates of users, stopped between the commit of their INSERT and their  *)
(* re-read while other threads create, update and read users.              *)
NextUserRace ==
    \/ \E data \in UserPayloadsRich : UserList_post_insert(data)
    \/ UserList_post_reread
    \/ \E data \in UserPayloadsRich : UserList_post(data)
    \/ \E id \in UserIdInputs, data \in UserPayloadsRich :
          UserResource_put(id, data)
    \/ \E id \in UserIdInputs : UserResource_get(id)
    \/ UserList_get
    \/ \E data \in LinkPayloads : UserCountryLinkList_post(data)
    \/ \E u \in UserIdInputs, c \in CountryIdInputs :
          SpecificUserCountryLink_delete(u, c)

SpecUserRace == Init /\ [][NextUserRace]_vars

(* The same with deletes of users by other threads.                        *)
NextUserRaceDelete ==
    \/ \E data \in UserPayloadsRich : UserList_post_insert(data)
    \/ UserList_post_reread
    \/ \E data \in UserPayloadsRich : UserList_post(data)
    \/ \E id \in UserIdInputs, data \in UserPayloadsRich :
          UserResource_put(id, data)
    \/ \E id \in UserIdInputs : UserResource_get(id)
    \/ \E id \in UserIdInputs : UserResource_delete(id)
    \/ \E data \in LinkPayloads : UserCountryLinkList_post(data)
    \/ \E u \in UserIdInputs, c \in CountryIdInputs :
          SpecificUserCountryLink_delete(u, c)

SpecUserRaceDelete == Init /\ [][NextUserRaceDelete]_vars

(* Updates of users, stopped between their existence check and their       *)
(* UPDATE while other threads create, update and delete users.             *)
NextUserUpdateRace ==
    \/ \E id \in UserIdInputs, data \in UserPayloads :
          UserResource_put_check(id, data)
    \/ UserResource_put_update
    \/ \E data \in UserPayloadsRich : UserList_post(data)
    \/ \E id \in UserIdInputs, data \in UserPayloads :
          UserResource_put(id, data)
    \/ \E id \in UserIdInputs : UserResource_get(id)
    \/ \E id \in UserIdInputs : UserResource_delete(id)
    \/ \E data \in LinkPayloads : UserCountryLinkList_post(data)
    \/ \E u \in UserIdInputs, c \in CountryIdInputs :
          SpecificUserCountryLink_delete(u, c)

SpecUserUpdateRace == Init /\ [][NextUserUpdateRace]_vars

(* Restarts of the application between requests that delete, create and   *)
(* rename the default rows.                                                *)
NextRestart ==
    \/ ensure_default_data
    \/ \E data \in UserPayloadsRich : UserList_post(data)
    \/ \E id \in UserIdInputs, data \in UserPayloadsRich :
          UserResource_put(id, data)
    \/ \E id \in UserIdInputs : UserResource_delete(id)
    \/ \E data \in CountryPayloadsRace : CountryList_post(data)
    \/ \E id \in CountryIdInputs, data \in CountryPayloadsRace :
          CountryResource_put(id, data)
    \/ \E id \in CountryIdInputs : CountryResource_delete(id)
    \/ \E data \in LinkPayloads : UserCountryLinkList_post(data)
    \/ \E u \in UserIdInputs, c \in CountryIdInputs :
          SpecificUserCountryLink_delete(u, c)

SpecRestart == Init /\ [][NextRestart]_vars

(* Creates, deletes and reads by id of the entities with a surrogate id,   *)
(* with restarts of the application in between.                            *)
NextIds ==
    \/ ensure_default_data
    \/ \E data \in UserPayloads : UserList_post(data)
    \/ \E id \in UserIdInputs : UserResource_get(id)
    \/ \E id \in UserIdInputs : UserResource_delete(id)
    \/ \E data \in CountryPayloads : CountryList_post(data)
    \/ \E id \in CountryIdInputs : CountryResource_delete(id)
    \/ \E data \in LocationPayloads : LocationList_post(data)
    \/ \E id \in LocationIdInputs : LocationResource_get(id)
    \/ \E data \in TripPayloads : TripList_post(data)
    \/ \E id \in TripIdInputs : TripResource_get(id)
    \/ \E id \in TripIdInputs : TripResource_delete(id)
    \/ \E u \in UserIdInputs, c \in CountryIdInputs :
          SpecificUserCountryLink_delete(u, c)

SpecIds == Init /\ [][NextIds]_vars

(* Creates of users whose usernames differ from a stored one in letter     *)
(* case only.                                                              *)
UserPayloadsCase ==
    [username : {"Default_User", "default_user"},
     email : {"default@example.com", "d@x.com"},
     profile_url : {NoneStr}]

NextUserCase ==
    \/ UserList_get
    \/ \E data \in UserPayloadsCase : UserList_post(data)
    \/ \E id \in UserIdInputs : UserResource_get(id)
    \/ \E id \in UserIdInputs, data \in UserPayloadsCase :
          UserResource_put(id, data)
    \/ \E id \in UserIdInputs : UserResource_delete(id)
    \/ \E data \in LinkPayloads : UserCountryLinkList_post(data)
    \/ \E u \in UserIdInputs, c \in CountryIdInputs :
          SpecificUserCountryLink_delete(u, c)

SpecUserCase == Init /\ [][NextUserCase]_vars

(* Updates of users and countries that keep the row's own unique values   *)
(* or take those of another row.                                           *)
NextUpdates ==
    \/ \E data \in UserPayloadsRich : UserList_post(data)
    \/ \E id \in UserIdInputs, data \in UserPayloadsRich :
          UserResource_put(id, data)
    \/ \E id \in UserIdInputs : UserResource_get(id)
    \/ \E id \in UserIdInputs : UserResource_delete(id)
    \/ \E data \in CountryPayloadsRace : CountryList_post(data)
    \/ \E id \in CountryIdInputs, data \in CountryPayloadsRace :
          CountryResource_put(id, data)
    \/ \E id \in CountryIdInputs : CountryResource_delete(id)
    \/ \E u \in UserIdInputs, c \in CountryIdInputs :
          SpecificUserCountryLink_delete(u, c)

SpecUpdates == Init /\ [][NextUpdates]_vars

(* The handlers that write the store, all five entities together.         *)
NextWrites ==
    \/ \E data \in UserPayloads : UserList_post(data)
    \/ \E id \in UserIdInputs, data \in UserPayloads : UserResource_put(id, data)
    \/ \E id \in UserIdInputs : UserResource_delete(id)
    \/ \E data \in CountryPayloads : CountryList_post(data)
    \/ \E id \in CountryIdInputs, data \in CountryPayloads :
          CountryResource_put(id, data)
    \/ \E id \in CountryIdInputs : CountryResource_delete(id)
    \/ \E data \in LocationPayloads : LocationList_post(data)
    \/ \E id \in LocationIdInputs, data \in LocationUpdatePayloads :
          LocationResource_put(id, data)
    \/ \E id \in LocationIdInputs : LocationResource_delete(id)
    \/ \E data \in TripPayloads : TripList_post(data)
    \/ \E id \in TripIdInputs, data \in TripPayloads : TripResource_put(id, data)
    \/ \E id \in TripIdInputs : TripResource_delete(id)
    \/ \E data \in LinkPayloads : UserCountryLinkList_post(data)
    \/ \E u \in UserIdInputs, c \in CountryIdInputs :
          SpecificUserCountryLink_delete(u, c)

SpecWrites == Init /\ [][NextWrites]_vars

(* The listings scoped to a user, with the handlers that create and        *)
(* delete the rows they select.                                            *)
NextScoped ==
    \/ \E id \in UserIdInputs : UserLocations_get(id)
    \/ \E id \in UserIdInputs : TripsByUser_get(id)
    \/ \E id \in UserIdInputs : UserAssociatedCountriesList_get(id)
    \/ \E data \in UserPayloads : UserList_post(data)
    \/ \E id \in UserIdInputs : UserResource_delete(id)
    \/ \E data \in CountryPayloads : CountryList_post(data)
    \/ \E id \in CountryIdInputs : CountryResource_delete(id)
    \/ \E data \in LocationPayloads : LocationList_post(data)
    \/ \E data \in TripPayloads : TripList_post(data)
    \/ \E id \in TripIdInputs : TripResource_delete(id)
    \/ \E data \in LinkPayloads : UserCountryLinkList_post(data)
    \/ \E u \in UserIdInputs, c \in CountryIdInputs :
          SpecificUserCountryLink_delete(u, c)

SpecScoped == Init /\ [][NextScoped]_vars

----------------------------------------------------------------------------
(* Properties *)

\* Calendar order of the ISO dates the requests carry (the handlers never
\* compare dates; the order is needed to state C7)
DateOrd(d) ==
    CASE d = "2024-07-01" -> 1
      [] d = "2024-07-15" -> 2
      [] OTHER            -> 0
Precedes(a, b) == DateOrd(a) < DateOrd(b)

\* The request of the step just taken passed the handler's own validation
ValidTripData(data) ==
    Strip(data.trip_name) # "" /\ data.user_id # None /\ data.country_id # None

ValidLocationData(data) ==
    /\ Strip(data.loc_name) # "" /\ data.user_id # None /\ data.country_id # None
    /\ data.latitude # None /\ data.longitude # None

ValidUserData(data) == Strip(data.username) # "" /\ Strip(data.email) # ""

(* C1: a Delete of an existing User or Country succeeds with 204, also     *)
(* when Locations, Trips or link rows still reference it, and afterwards   *)
(* no Location, Trip or link row references the deleted id.                *)
C1_DeleteCascades ==
    [][ /\ (last'.op = "UserResource.delete" /\ last'.id \in UserIds)
           => /\ last'.status = 204
              /\ \A l \in Locations' : l.user_id # last'.id
              /\ \A t \in Trips' : t.user_id # last'.id
              /\ \A k \in User_countries' : k[1] # last'.id
        /\ (last'.op = "CountryResource.delete" /\ last'.id \in CountryIds)
           => /\ last'.status = 204
              /\ \A l \in Locations' : l.country_id # last'.id
              /\ \A t \in Trips' : t.country_id # last'.id
              /\ \A k \in User_countries' : k[2] # last'.id ]_vars

(* C2: in every reachable state every Location, every Trip and every      *)
(* User_countries row names an existing User and an existing Country.      *)
C2_ReferentialIntegrity ==
    /\ \A l \in Locations : l.user_id \in UserIds /\ l.country_id \in CountryIds
    /\ \A t \in Trips : t.user_id \in UserIds /\ t.country_id \in CountryIds
    /\ \A k \in User_countries : k[1] \in UserIds /\ k[2] \in CountryIds

\* a user was deleted while trips and links of other users are stored
C2_Witness ==
    /\ last.op = "UserResource.delete" /\ last.status = 204
    /\ Trips # {} /\ User_countries # {}

(* C3: no state holds two Users with the same username or the same email, *)
(* and a Create User whose username or email equals that of an existing    *)
(* User ends in 409 and leaves the Users table as it was.                  *)
C3_DuplicateUserConflict ==
    /\ [](\A u, v \in Users :
             (u.username = v.username \/ u.email = v.email) => u = v)
    /\ [][ ( /\ last'.op = "UserList.post"
             /\ ValidUserData(last'.data)
             /\ \E u \in Users : \/ u.username = Strip(last'.data.username)
                                 \/ u.email = Strip(last'.data.email) )
           => (last'.status = 409 /\ Users' = Users) ]_vars

\* a Create User that collided on the email alone was answered 409
C3_Witness ==
    /\ last.op = "UserList.post" /\ last.status = 409
    /\ \E u \in Users : u.email = Strip(last.data.email)
    /\ \A u \in Users : u.username # Strip(last.data.username)

(* C4: a Create Location whose user_id or country_id names no row ends in  *)
(* 400 (the reference violation when the payload is complete) and leaves   *)
(* the Locations table as it was.                                          *)
C4_LocationReferenceViolation ==
    [][ ( /\ last'.op = "LocationList.post"
          /\ \/ last'.data.user_id \notin UserIds
             \/ last'.data.country_id \notin CountryIds )
        => /\ last'.status = 400
           /\ ValidLocationData(last'.data) => last'.kind = "reference"
           /\ Locations' = Locations ]_vars

\* a complete Create Location naming a user that does not exist was refused
C4_Witness ==
    /\ last.op = "LocationList.post" /\ last.status = 400
    /\ ValidLocationData(last.data)
    /\ last.data.user_id \notin UserIds

(* C5: a complete Create Location for an existing user and country ends in *)
(* 409, storing nothing, when that user already has a location of that     *)
(* name, and otherwise succeeds with 201 and stores the row, also when     *)
(* another user has a location of that name.                               *)
C5_LocationNameUniquePerUser ==
    [][ ( /\ last'.op = "LocationList.post"
          /\ ValidLocationData(last'.data)
          /\ last'.data.user_id \in UserIds
          /\ last'.data.country_id \in CountryIds )
        => IF \E l \in Locations : /\ l.user_id = last'.data.user_id
                                   /\ l.loc_name = Strip(last'.data.loc_name)
             THEN last'.status = 409 /\ Locations' = Locations
             ELSE /\ last'.status = 201
                  /\ \E l \in Locations' \ Locations :
                        /\ l.user_id = last'.data.user_id
                        /\ l.loc_name = Strip(last'.data.loc_name) ]_vars

(* C6: no two Trips have the same (user_id, trip_name); a Create Trip or   *)
(* Update Trip (also one that changes the owner) whose (user_id,           *)
(* trip_name) is held by another Trip changes no row, and ends in 409      *)
(* when it carries both dates.                                             *)
C6_TripNameUniquePerUser ==
    /\ [](\A t1, t2 \in Trips :
             (t1.user_id = t2.user_id /\ t1.trip_name = t2.trip_name) => t1 = t2)
    /\ [][ ( /\ last'.op \in {"TripList.post", "TripResource.put"}
             /\ ValidTripData(last'.data)
             /\ last'.data.user_id \in UserIds
             /\ last'.data.country_id \in CountryIds
             /\ last'.op = "TripResource.put" => last'.id \in TripIds
             /\ \E t \in Trips :
                   /\ t.user_id = last'.data.user_id
                   /\ t.trip_name = Strip(last'.data.trip_name)
                   /\ last'.op = "TripResource.put" => t.trip_id # last'.id )
           => /\ Trips' = Trips
              /\ (last'.data.startdate # NoneStr /\ last'.data.enddate # NoneStr)
                 => last'.status = 409 ]_vars

\* an Update Trip that would hand the trip to a user who already has a
\* trip of that name was answered 409
C6_Witness ==
    /\ last.op = "TripResource.put" /\ last.status = 409
    /\ \E t \in Trips : t.trip_id = last.id /\ t.user_id # last.data.user_id

(* C7: every stored Trip has an end date that does not precede its start   *)
(* date, and a Create Trip or Update Trip whose enddate is earlier than    *)
(* its startdate ends in 400 and changes no Trip.                          *)
C7_EndNotBeforeStart ==
    /\ [](\A t \in Trips : ~Precedes(t.enddate, t.startdate))
    /\ [][ ( /\ last'.op \in {"TripList.post", "TripResource.put"}
             /\ last'.data.startdate # NoneStr /\ last'.data.enddate # NoneStr
             /\ Precedes(last'.data.enddate, last'.data.startdate) )
           => (last'.status = 400 /\ Trips' = Trips) ]_vars

(* C8: listing the Locations of a user who exists and owns no location     *)
(* answers 200 with an empty list.                                         *)
C8_EmptyLocationListIsSuccess ==
    ( /\ last.op = "UserLocations.get"
      /\ last.id \in UserIds
      /\ \A l \in Locations : l.user_id # last.id )
    => (last.status = 200 /\ last.body = {})

(* C9: the user-scoped listing of Locations or of Trips for a user id      *)
(* without a User row answers 404.                                         *)
C9_ScopedListOfMissingUser ==
    (last.op \in {"UserLocations.get", "TripsByUser.get"} /\ last.id \notin UserIds)
    => (last.status = 404 /\ last.kind = "not_found")

\* trips are stored, and the trips of a user id without a row were asked for
C9_Witness ==
    /\ last.op = "TripsByUser.get" /\ last.id \notin UserIds
    /\ Trips # {}

(* C10: listing the countries of a user answers 404 when the user has no   *)
(* row; otherwise 200 with exactly the Countries that user is linked to,   *)
(* the empty list when there is no link.                                   *)
C10_CountriesOfUser ==
    last.op = "UserAssociatedCountriesList.get"
    => IF last.id \notin UserIds
         THEN last.status = 404
         ELSE /\ last.status = 200
              /\ last.body \subseteq Countries
              /\ {c.country_id : c \in last.body}
                   = {k[2] : k \in {uc \in User_countries : uc[1] = last.id}}

\* the countries of an existing user without links: 200 with an empty list
C10_Witness ==
    /\ last.op = "UserAssociatedCountriesList.get"
    /\ last.id \in UserIds
    /\ \A k \in User_countries : k[1] # last.id
    /\ last.status = 200 /\ last.body = {}

(* C11: a Create UserCountryLink for a pair that is already linked ends in  *)
(* 409 and leaves the link table as it was, and no state holds two link    *)
(* rows with the same (user_id, country_id).                               *)
C11_DuplicateLinkConflict ==
    /\ [](\A k1, k2 \in User_countries :
             (k1[1] = k2[1] /\ k1[2] = k2[2]) => k1 = k2)
    /\ [][ ( /\ last'.op = "UserCountryLinkList.post"
             /\ LinkRows(last'.data.user_id, last'.data.country_id) # {} )
           => (last'.status = 409 /\ User_countries' = User_countries) ]_vars

\* a link created by a request was asked for a second time and refused
C11_Witness ==
    /\ last.op = "UserCountryLinkList.post" /\ last.status = 409
    /\ last.data.user_id = 2
    /\ LinkRows(2, last.data.country_id) # {}

\* The row a Delete or a Read-by-id of the step just taken addressed is
\* absent from the table it addresses
TargetAbsent(op, id, data) ==
    \/ op \in {"UserResource.delete", "UserResource.get"} /\ id \notin UserIds
    \/ op \in {"CountryResource.delete", "CountryResource.get"}
          /\ id \notin CountryIds
    \/ op \in {"LocationResource.delete", "LocationResource.get"}
          /\ id \notin LocationIds
    \/ op \in {"TripResource.delete", "TripResource.get"} /\ id \notin TripIds
    \/ op \in {"SpecificUserCountryLink.delete", "SpecificUserCountryLink.get"}
          /\ LinkRows(data.user_id, data.country_id) = {}

(* C12: for each of the five entities a Delete, and a Read-by-id, of an id  *)
(* (or composite key) without a row answers 404 and changes no table; so   *)
(* does the Delete or Read-by-id of the same id that comes right after a   *)
(* successful Delete.                                                      *)
C12_DeleteOfAbsentIsNotFound ==
    [][ /\ TargetAbsent(last'.op, last'.id, last'.data)
           => (last'.status = 404 /\ tables' = tables)
        /\ ( /\ last.status = 204
             /\ last'.id = last.id /\ last'.data = last.data
             /\ \/ last'.op = last.op
                \/ <<last.op, last'.op>> \in
                      {<<"UserResource.delete", "UserResource.get">>,
                       <<"CountryResource.delete", "CountryResource.get">>,
                       <<"LocationResource.delete", "LocationResource.get">>,
                       <<"TripResource.delete", "TripResource.get">>,
                       <<"SpecificUserCountryLink.delete",
                         "SpecificUserCountryLink.get">>} )
           => last'.status = 404 ]_vars

\* A text field of the request as it was sent
AsSent(s) == s

\* The step is the Read-by-id of the row the step before created, and the
\* record it returns holds every field the Create read from its payload,
\* each text field equal to Norm of the value sent
ReadEqualsCreate(Norm(_)) ==
    /\ ( /\ last.op = "UserList.post" /\ last.status = 201
         /\ last'.op = "UserResource.get" /\ last'.id = last.id )
       => /\ last'.status = 200
          /\ \E u \in last'.body :
                /\ last'.body = {u}
                /\ u.username = Norm(last.data.username)
                /\ u.email = Norm(last.data.email)
                /\ u.profile_url = IF last.data.profile_url = NoneStr
                                     THEN NoneStr
                                     ELSE Norm(last.data.profile_url)
    /\ ( /\ last.op = "LocationList.post" /\ last.status = 201
         /\ last'.op = "LocationResource.get" /\ last'.id = last.id )
       => /\ last'.status = 200
          /\ \E l \in last'.body :
                /\ last'.body = {l}
                /\ l.loc_name = Norm(last.data.loc_name)
                /\ l.user_id = last.data.user_id
                /\ l.country_id = last.data.country_id
                /\ l.image_url = last.data.image_url
                /\ {"latitude", "longitude"} \subseteq DOMAIN l
                /\ l.latitude = last.data.latitude
                /\ l.longitude = last.data.longitude
    /\ ( /\ last.op = "TripList.post" /\ last.status = 201
         /\ last'.op = "TripResource.get" /\ last'.id = last.id )
       => /\ last'.status = 200
          /\ \E t \in last'.body :
                /\ last'.body = {t}
                /\ t.trip_name = Norm(last.data.trip_name)
                /\ t.user_id = last.data.user_id
                /\ t.country_id = last.data.country_id
                /\ t.startdate = last.data.startdate
                /\ t.enddate = last.data.enddate
    /\ ( /\ last.op = "UserCountryLinkList.post" /\ last.status = 201
         /\ last'.op = "SpecificUserCountryLink.get"
         /\ last'.data = last.data )
       => /\ last'.status = 200
          /\ last'.body = {<<last.data.user_id, last.data.country_id>>}

(* C13 as stated: a successful Create followed at once by the Read-by-id   *)
(* of the returned id yields a record equal to the payload sent, field by  *)
(* field (User, Location, Trip, UserCountryLink; Country has no            *)
(* Read-by-id).                                                            *)
C13_RoundTrip == [][ReadEqualsCreate(AsSent)]_vars

(* C13 amended: a successful Create followed at once by the Read-by-id of  *)
(* the returned id yields a record equal to the payload sent once its text *)
(* fields (username, email, profile_url, loc_name, trip_name) are trimmed  *)
(* of surrounding whitespace; numbers and dates come back as sent.         *)
C13_RoundTripTrimmed == [][ReadEqualsCreate(Strip)]_vars

\* a user sent with whitespace around username and profile_url was created
\* and then read by the id the Create returned
C13_Witness ==
    /\ last.op = "UserResource.get" /\ last.status = 200
    /\ sqlite_sequence.Users = last.id
    /\ \E u \in last.body : u.username = "alice" /\ u.profile_url = "p.png"

(* C14: an Update (of a User, Country, Location or Trip) whose id has no   *)
(* row answers 404 whatever the payload, also a payload with a missing or  *)
(* blank required field.                                                   *)
C14_UpdateChecksExistenceFirst ==
    [][ /\ (last'.op = "UserResource.put" /\ last'.id \notin UserIds)
           => last'.status = 404
        /\ (last'.op = "CountryResource.put" /\ last'.id \notin CountryIds)
           => last'.status = 404
        /\ (last'.op = "LocationResource.put" /\ last'.id \notin LocationIds)
           => last'.status = 404
        /\ (last'.op = "TripResource.put" /\ last'.id \notin TripIds)
           => last'.status = 404 ]_vars

(* C15: a Create Location whose payload holds a non-empty name, the id of   *)
(* an existing User and the id of an existing Country and nothing else,    *)
(* for a user without a location of that name, answers 201 and stores a    *)
(* Location row with that name, user and country.                          *)
C15_CreateLocationWithoutCoordinates ==
    [][ ( /\ last'.op = "LocationList.post"
          /\ Strip(last'.data.loc_name) # ""
          /\ last'.data.latitude = None /\ last'.data.longitude = None
          /\ last'.data.user_id \in UserIds
          /\ last'.data.country_id \in CountryIds
          /\ \A l \in Locations :
                ~(l.user_id = last'.data.user_id
                  /\ l.loc_name = Strip(last'.data.loc_name)) )
        => /\ last'.status = 201
           /\ \E l \in Locations' \ Locations :
                 /\ l.loc_name = Strip(last'.data.loc_name)
                 /\ l.user_id = last'.data.user_id
                 /\ l.country_id = last'.data.country_id ]_vars

(* C16: on every exit path of every entity operation (success, abort      *)
(* while the connection is held, storage failure) the handler has closed   *)
(* every store connection it acquired: no connection stays open.           *)
C16_ConnectionsReleased == last.closed = last.acquired

(* C17: create_tables called when the five tables exist succeeds and      *)
(* leaves every row of every table as it was; and on a database with any   *)
(* subset of the tables, calling it twice gives what calling it once       *)
(* gives.                                                                  *)
C17_CreateTablesIdempotent ==
    /\ [](\A schema \in SUBSET TableNames :
             create_tables_on(create_tables_on(Database(schema)))
               = create_tables_on(Database(schema)))
    /\ [][ last'.op = "create_tables"
             => (last'.kind = "ok" /\ tables' = tables) ]_vars

\* create_tables ran on a database that holds created users, trips and links
C17_Witness ==
    /\ last.op = "create_tables" /\ last.kind = "ok"
    /\ Cardinality(Users) > 1 /\ Trips # {} /\ Cardinality(User_countries) > 1

(* C18: an operation that ends in an error outcome (400, 404, 409, 500)    *)
(* leaves all five tables exactly as they were before it started.          *)
C18_NoPartialApplication ==
    [][ last'.status >= 400 => tables' = tables ]_vars

\* the Delete of a user who has a link row and a trip ended in 500
C18_Witness ==
    /\ last.op = "UserResource.delete" /\ last.status = 500
    /\ \E k \in User_countries : k[1] = last.id
    /\ \E t \in Trips : t.user_id = last.id

(* C19: when the User or Country a Create Location, Create Trip or Create  *)
(* UserCountryLink names is deleted between the create's pre-checks and    *)
(* its INSERT, the create answers 400 as the pre-check would have, and no  *)
(* row is inserted.                                                        *)
C19_CreateRacingDelete ==
    [][ ( /\ pending.op \in {"LocationList.post", "TripList.post",
                              "UserCountryLinkList.post"}
          /\ pending' = NoPending
          /\ \/ pending.data.user_id \notin UserIds
             \/ pending.data.country_id \notin CountryIds )
        => (last'.status = 400 /\ tables' = tables) ]_vars

(* C20: in every reachable state, also when creates and updates of         *)
(* countries are interleaved between their name pre-check and their        *)
(* INSERT or UPDATE, no two Country rows have names that are equal when    *)
(* case-folded.                                                            *)
C20_CountryNamesUniqueIgnoringCase ==
    \A c1, c2 \in Countries :
        Lower(c1.country) = Lower(c2.country) => c1 = c2

(* C21: a successful Update User sets username, email and profile_url of   *)
(* the target row to the payload's (trimmed) values, null for a payload    *)
(* without profile_url, and leaves the row's user_id and created_at, every *)
(* other User row and every Country, Location, Trip and link row as they   *)
(* were.                                                                   *)
C21_UpdateUserFrame ==
    [][ (last'.op = "UserResource.put" /\ last'.status = 200) =>
        /\ \E old \in Users, new \in Users' :
              /\ old.user_id = last'.id /\ new.user_id = last'.id
              /\ new.username = Strip(last'.data.username)
              /\ new.email = Strip(last'.data.email)
              /\ new.profile_url = IF last'.data.profile_url = NoneStr
                                     THEN NoneStr
                                     ELSE Strip(last'.data.profile_url)
              /\ new.created_at = old.created_at
              /\ Users' \ {new} = Users \ {old}
        /\ UNCHANGED <<Countries, Locations, Trips, User_countries>> ]_vars

\* the default user, who had a profile_url, was updated by a payload
\* without one, after the clock had moved on from the user's creation
C21_Witness ==
    /\ last.op = "UserResource.put" /\ last.status = 200 /\ last.id = 1
    /\ last.data.profile_url = NoneStr
    /\ \E u \in Users : /\ u.user_id = 1 /\ u.profile_url = NoneStr
                         /\ u.created_at \notin CURRENT_TIMESTAMP
    /\ Cardinality(Users) = 2 /\ Trips # {}

(* C22: whenever the store raises a constraint violation (UNIQUE, FOREIGN  *)
(* KEY, NOT NULL), the handler catches it and answers with a domain error; *)
(* no request, Delete User and Delete Country included, ends with the      *)
(* exception escaping the handler.  (The exceptions that escape the writes *)
(* of locations are not constraint violations: the statement names a       *)
(* column the table does not have.)                                        *)
C22_ConstraintViolationsTranslated ==
    last.kind = "unhandled" =>
        last.op \in {"LocationList.post", "LocationResource.put"}

(* C23: of two Create User requests with the same username or the same    *)
(* email served concurrently, whatever the order of their statements, the  *)
(* one whose INSERT comes second is answered 409 and adds no row, the      *)
(* other is answered 201 with its row; the Users table never holds two     *)
(* rows with one username or one email.                                    *)
C23_ConcurrentCreateUser ==
    /\ [](\A u1, u2 \in Users :
            (u1.username = u2.username \/ u1.email = u2.email) => u1 = u2)
    /\ [][ /\ ( /\ pending.op = "UserList.post" /\ pending' = pending
                /\ last'.op = "UserList.post" /\ last' # last
                /\ Strip(last'.data.username) # ""
                /\ Strip(last'.data.email) # ""
                /\ \E u \in Users :
                      /\ u.user_id = pending.id
                      /\ \/ u.username = Strip(last'.data.username)
                         \/ u.email = Strip(last'.data.email) )
              => (last'.status = 409 /\ Users' = Users)
           /\ ( pending.op = "UserList.post" /\ pending' = NoPending )
              => ( /\ last'.status = 201
                   /\ \E u \in Users : /\ u.user_id = pending.id
                                         /\ last'.body = {u} ) ]_vars

\* a Create User was answered 409 while another Create User with the same
\* username had committed its INSERT and not yet answered
C23_Witness ==
    /\ pending.op = "UserList.post"
    /\ last.op = "UserList.post" /\ last.status = 409
    /\ Strip(last.data.username) = Strip(pending.data.username)
    /\ Strip(last.data.email) # Strip(pending.data.email)

(* C24: a Create whose INSERT has committed always answers 201 with the    *)
(* row it inserted, also when another request deletes that row between    *)
(* the commit and the re-read.                                             *)
C24_InsertAndRereadAreOneUnit ==
    [][ (pending.op = "UserList.post" /\ pending' = NoPending)
        => ( /\ last'.status = 201
             /\ \E u \in last'.body :
                   /\ u.user_id = pending.id
                   /\ u.username = Strip(pending.data.username)
                   /\ u.email = Strip(pending.data.email) ) ]_vars

(* C25: an Update User whose existence check found the target row never   *)
(* answers 404 afterwards, whatever Delete User requests other threads     *)
(* serve in between.                                                       *)
C25_RereadAfterUpdateFindsRow ==
    [][ (pending.op = "UserResource.put" /\ pending' = NoPending)
        => last'.status # 404 ]_vars

(* C26: run on any database the entity operations can leave behind,       *)
(* ensure_default_data completes without an error and leaves a User row    *)
(* with id 1, a Country row with id 1 and the link row (1, 1); run again   *)
(* at once, it changes nothing.                                            *)
C26_EnsureDefaultData ==
    /\ [](last.op = "ensure_default_data" =>
            /\ last.kind = "ok"
            /\ 1 \in UserIds /\ 1 \in CountryIds
            /\ LinkRows(1, 1) # {})
    /\ [][ (last.op = "ensure_default_data"
            /\ last'.op = "ensure_default_data") => tables' = tables ]_vars

\* the table a Create writes
CreatedTable(op) ==
    CASE op = "UserList.post" -> "Users"
      [] op = "CountryList.post" -> "Countries"
      [] op = "LocationList.post" -> "Locations"
      [] op = "TripList.post" -> "Trips"
      [] OTHER -> "none"

(* C27: surrogate ids are never reused.  In Users, Countries, Locations    *)
(* and Trips the counter of assigned ids never goes down and no row has an *)
(* id above it; a successful Create returns an id above the counter, that  *)
(* is, above every id assigned before, deleted rows included; and no       *)
(* request brings back a row with an id at or below the counter, so the    *)
(* Read-by-id of a deleted id stays 404.                                   *)
C27_IdsNeverReused ==
    /\ [](\A t \in DOMAIN sqlite_sequence :
            \A k \in TableIds(t) : k <= sqlite_sequence[t])
    /\ [][ \A t \in DOMAIN sqlite_sequence :
             /\ sqlite_sequence'[t] >= sqlite_sequence[t]
             /\ (CreatedTable(last'.op) = t /\ last'.status = 201 /\ last' # last)
                   => ( /\ last'.id > sqlite_sequence[t]
                        /\ TableIds(t)' = TableIds(t) \cup {last'.id} )
             /\ last'.op # "ensure_default_data"
                   => \A k \in TableIds(t)' \ TableIds(t) :
                         k > sqlite_sequence[t]
             /\ ( /\ last'.op \in {"UserResource.get", "LocationResource.get",
                                    "TripResource.get"}
                  /\ t = CASE last'.op = "UserResource.get" -> "Users"
                            [] last'.op = "LocationResource.get" -> "Locations"
                            [] OTHER -> "Trips"
                  /\ last'.id <= sqlite_sequence[t]
                  /\ last'.id \notin TableIds(t) )
                   => last'.status = 404 ]_vars

\* trip 1 was created and deleted, and the Create Trip that followed
\* returned id 2
C27_Witness ==
    /\ last.op = "TripList.post" /\ last.status = 201 /\ last.id = 2
    /\ TripIds = {2}

\* the username of a Create User differs from a stored username in letter
\* case only, and neither it nor the email is stored as sent
OnlyCaseDiffers(data) ==
    /\ ValidUserData(data)
    /\ \E u \in Users : /\ Lower(u.username) = Lower(Strip(data.username))
                         /\ u.username # Strip(data.username)
    /\ \A u \in Users : /\ u.username # Strip(data.username)
                         /\ u.email # Strip(data.email)

(* C28: a Create User whose username differs from a stored username in     *)
(* letter case only is answered 409 and leaves the Users table as it was.  *)
C28_UsernameUniqueAnyCase ==
    [][ (last'.op = "UserList.post" /\ last' # last
         /\ OnlyCaseDiffers(last'.data))
        => (last'.status = 409 /\ Users' = Users) ]_vars

(* C28 as the code has it: usernames are compared as stored.  A Create     *)
(* User whose username equals a stored one is answered 409 and leaves the  *)
(* table as it was; one whose username differs in letter case only (and    *)
(* whose email is free) is answered 201, its row stored with the username  *)
(* as sent, the stored users unaffected.                                   *)
C28_UsernameUniqueExactCase ==
    [][ /\ ( /\ last'.op = "UserList.post" /\ last' # last
             /\ ValidUserData(last'.data)
             /\ \E u \in Users : u.username = Strip(last'.data.username) )
           => (last'.status = 409 /\ Users' = Users)
        /\ ( /\ last'.op = "UserList.post" /\ last' # last
             /\ OnlyCaseDiffers(last'.data) )
           => ( /\ last'.status = 201
                /\ Users \subseteq Users'
                /\ \E u \in Users' \ Users :
                      u.username = Strip(last'.data.username) ) ]_vars

\* 'Default_User' was created next to the stored 'default_user'
C28_Witness ==
    /\ last.op = "UserList.post" /\ last.status = 201
    /\ \E u, v \in Users : /\ u.username = "default_user"
                            /\ v.username = "Default_User"

(* C29: a Create Trip with a name, an existing user and an existing        *)
(* country but without a start date or without an end date is answered     *)
(* 400 by the required-field check, before any connection is acquired,     *)
(* and inserts nothing.                                                    *)
C29_TripDatesRequired ==
    [][ ( /\ last'.op = "TripList.post" /\ last' # last
          /\ Strip(last'.data.trip_name) # ""
          /\ user_exists(last'.data.user_id)
          /\ country_exists(last'.data.country_id)
          /\ \/ last'.data.startdate = NoneStr
             \/ last'.data.enddate = NoneStr )
        => ( /\ last'.status = 400 /\ last'.kind = "validation"
             /\ last'.acquired = 0
             /\ tables' = tables ) ]_vars

(* C30: an Update User or Update Country of an existing row, with a valid  *)
(* payload, that keeps the row's own username and email (code and name)    *)
(* is answered 200; one that takes a username or email (a code, or a name  *)
(* in any letter case) held by another row is answered 409 and leaves the  *)
(* table, the target row and the other row included, as it was.            *)
C30_UpdateNeverConflictsWithSelf ==
    [][ /\ ( /\ last'.op = "UserResource.put" /\ last' # last
             /\ ValidUserData(last'.data)
             /\ last'.id \in UserIds )
           => LET username == Strip(last'.data.username)
                  email == Strip(last'.data.email)
              IN  /\ (\E u \in Users :
                         /\ u.user_id # last'.id
                         /\ (u.username = username \/ u.email = email))
                        => (last'.status = 409 /\ Users' = Users)
                  /\ (\E u \in Users :
                         /\ u.user_id = last'.id
                         /\ u.username = username /\ u.email = email)
                        => last'.status = 200
        /\ ( /\ last'.op = "CountryResource.put" /\ last' # last
             /\ last'.id \in CountryIds
             /\ IsAlpha3(Upper(Strip(last'.data.country_code3)))
             /\ Strip(last'.data.country) # "" )
           => LET code == Upper(Strip(last'.data.country_code3))
                  name == Strip(last'.data.country)
              IN  /\ (\E c \in Countries :
                         /\ c.country_id # last'.id
                         /\ \/ c.country_code3 = code
                            \/ Lower(c.country) = Lower(name))
                        => (last'.status = 409 /\ Countries' = Countries)
                  /\ (\E c \in Countries :
                         /\ c.country_id = last'.id
                         /\ c.country_code3 = code /\ c.country = name)
                        => last'.status = 200 ]_vars

\* an Update Country was refused for a name that another row holds in
\* another letter case, the target row being there with its old values
C30_Witness ==
    /\ last.op = "CountryResource.put" /\ last.status = 409
    /\ last.id \in CountryIds
    /\ \E c \in Countries :
          /\ c.country_id # last.id
          /\ c.country_code3 # Upper(Strip(last.data.country_code3))
          /\ Lower(c.country) = Lower(Strip(last.data.country))
          /\ c.country # Strip(last.data.country)

====
